---- MODULE Spec2Model ----
\* Model of the event dispatch engine of the Type-Safe Event System:
\* TypedEventEmitter (src/src/core/emitter.ts), its ListenerWrapper and
\* SubscriptionImpl helpers, the middleware pipeline and the feed of
\* EventObservable streams.
\*
\* The program runs on a JavaScript event loop.  Every action below is one
\* run-to-completion step: the synchronous code between two suspension
\* points (await, setImmediate, setTimeout).  Other steps may run while an
\* emission is suspended.
EXTENDS Integers, Sequences, FiniteSets, TLC

\* ---------------------------------------------------------------- bounds
\* Each specification bounds the calls its environment makes: the numbers of
\* on()/once(), use(), stream() and emit() calls.
PipelineMiddlewares == 2
PipelineEmits == 1
DispatchListeners == 2
DispatchEmits == 1
TimeoutListeners == 2
TimeoutEmits == 1
PriorityListeners == 3
PriorityEmits == 1
OnceListeners == 2
OnceEmits == 2
ValidationMiddlewares == 2
ValidationEmits == 1
RateCalls == 4
ObservedObservers == 2
ObservedCalls == 3
TakeMax == 2
TakeCalls == 4
ChainTake == 2
ChainEmits == 2
ChainCalls == 4
CallbackCalls == 3
DebounceCalls == 3
DebounceMaxTime == 5
ThrottleCalls == 3
ThrottleTime == 3
RateMaxTime == 6
UnsubListeners == 2
UnsubEmits == 1
MaxCallsListeners == 2
MaxCallsEmits == 3
DistinctCalls == 4
BufferMax == 2
BufferCalls == 4
CombineCalls == 4
PromiseObservers == 3
PromiseCalls == 3
AllListeners == 2
AllStreams == 2
AllEmits == 2
SharedObservers == 2
SharedEmits == 2
DisposeListeners == 1
DisposeMiddlewares == 1
DisposeStreams == 1
DisposeEmits == 2
DisposeCalls == 1
IdEmits == 3
IdMaxTime == 1
IdDisposes == 1
CeilingMax == 2
CeilingCalls == 4
MetricListeners == 1
MetricMiddlewares == 1
MetricEmits == 2
MetricDisposes == 1
AfterListeners == 1
AfterMiddlewares == 2
AfterEmits == 1
SnapListeners == 2
SnapEmits == 1
DestroyListeners == 2
DestroyEmits == 2
DestroyCalls == 1
OrderEmits == 3
OnceOptionListeners == 2
OnceOptionEmits == 2
ClosedListeners == 2
ClosedMiddlewares == 1
ClosedEmits == 1
BornListeners == 1
BornStreams == 2
BornEmits == 2
KeepListeners == 2
KeepMiddlewares == 1
KeepStreams == 2
KeepEmits == 1
KeepDisposes == 1

\* ------------------------------------------------------------ constants
\* ListenerPriority.NORMAL, the default priority of a wrapper
NORMAL == 5
\* listenerId of the EmitError entry of a pipeline failure ('middleware')
MiddlewareId == 0
\* The RateLimitConfig of the instance: maxEvents, windowMs, and no minInterval
RateMaxEvents == 2
RateWindowMs == 3
RateMinInterval == 0
\* The delay given to debounce()
DebounceMs == 2
\* The interval given to throttle()
ThrottleMs == 2
\* EVENT_CONFIG.LIMITS.MAX_LISTENERS_PER_EVENT, the default of
\* config.maxListenersPerEvent
MAX_LISTENERS_PER_EVENT == 100
\* `undefined`: the value of a variable never assigned and of an absent field
Undefined == 0

Names == {"a", "b"}
Payloads == {1, 2}

VARIABLES
    wrappers,       \* every ListenerWrapper ever created, by listener id
    listeners,      \* TypedEventEmitter.listeners: name -> wrapper ids, insertion order
    mws,            \* every Middleware instance ever passed to use()
    middlewares,    \* TypedEventEmitter.middlewares: array of instance ids
    emissions,      \* every emit() call, by call order
    started,        \* listener bodies in the order they were started
    obsSets,        \* the Set objects held by TypedEventEmitter.observables
    observables,    \* TypedEventEmitter.observables: name -> Set object (0: no entry)
    streams,        \* every EventObservable created by stream()
    tasks,          \* callbacks queued with setImmediate, FIFO
    afterRuns,      \* the runAfterMiddlewares calls started so far
    eventCounter,   \* TypedEventEmitter.eventCounter
    totalEventsEmitted,
    now,            \* Date.now(), in ms
    eventCounts,    \* RateLimitMiddleware.eventCounts: key -> EventCountInfo
    rateLog,        \* the calls of the rate limiter's hook and their outcome
    obs,            \* every EventObservable / Observable built by an operator or by hand
    subs,           \* every observer passed to subscribe()
    timers,         \* pending setTimeout / setImmediate callbacks of the streams
    fed,            \* the calls made on the source stream, in order
    disposals,      \* every dispose() call, by call order
    onLog,          \* the on() calls that were checked against the config
    maxListenersPerEvent    \* TypedEventEmitter.config.maxListenersPerEvent

emitterVars == <<wrappers, listeners, mws, middlewares, emissions, started, obsSets,
                 observables, streams, tasks, afterRuns, eventCounter,
                 totalEventsEmitted>>

rateVars == <<eventCounts, rateLog>>

streamVars == <<obs, subs, timers, fed>>

\* The state outside the emitter
\* The calls of dispose() and on(), and the configuration
lifeVars == <<disposals, onLog, maxListenersPerEvent>>

otherVars == <<now, rateVars, streamVars, lifeVars>>

vars == <<emitterVars, otherVars>>

\* ------------------------------------------------------------- helpers
Range(s) == {s[i] : i \in 1..Len(s)}

Remove(s, x) == SelectSeq(s, LAMBDA y : y # x)

RemoveAt(s, i) ==
    IF i < 1 \/ i > Len(s) THEN s
    ELSE SubSeq(s, 1, i - 1) \o SubSeq(s, i + 1, Len(s))

\* Array.prototype.indexOf, 1-based, 0 when absent
RECURSIVE IndexFrom(_, _, _)
IndexFrom(s, x, i) ==
    IF i > Len(s) THEN 0
    ELSE IF s[i] = x THEN i
    ELSE IndexFrom(s, x, i + 1)

IndexOf(s, x) == IndexFrom(s, x, 1)

\* ------------------------------------------------------- ListenerWrapper
\* options: prio is read only when hasPrio; cond = 0, timeout = 0 and
\* maxCalls = 0 stand for an absent option (JavaScript treats an absent
\* option and 0 alike in the tests `options.x && ...` and `if (options.x)`).
PriorityOf(options) ==
    IF options.hasPrio /\ options.prio # 0 THEN options.prio ELSE NORMAL

NewWrapper(eventType, body, user, options) ==
    [ type       |-> eventType,
      body       |-> body,
      user       |-> user,
      options    |-> options,
      priority   |-> PriorityOf(options),
      callCount  |-> 0,
      isDisposed |-> FALSE,
      closed     |-> FALSE,
      again      |-> FALSE,
      bodyCalls  |-> 0,
      resolved   |-> << >> ]

\* options.condition(event): a listener with cond = c accepts payload c only
Condition(options, event) == event.payload = options.cond

\* removeListener, were it to delete the wrapper from the Set of its name
\* without disposing it
RemoveListenerKeepsWrapper(ws, ls, lid) ==
    [ w  |-> [ws EXCEPT ![lid].closed = TRUE],
      ls |-> [ls EXCEPT ![ws[lid].type] = Remove(@, lid)] ]

\* TypedEventEmitter.removeListener followed by SubscriptionImpl's _closed = true
RemoveListener(ws, ls, lid) ==
    [ w  |-> [ws EXCEPT ![lid].isDisposed = TRUE, ![lid].closed = TRUE],
      ls |-> [ls EXCEPT ![ws[lid].type] = Remove(@, lid)] ]

\* SubscriptionImpl.unsubscribe, were it to have no _closed flag and were
\* removeListener to delete the name's entry whatever its size
UnsubscribeDeletesEntry(ws, ls, lid) ==
    [ w  |-> [ws EXCEPT ![lid].isDisposed = TRUE, ![lid].again = ws[lid].closed,
                        ![lid].closed = TRUE],
      ls |-> [ls EXCEPT ![ws[lid].type] = << >>] ]

\* SubscriptionImpl.unsubscribe; `again` records that the method was called
\* on a subscription already closed
UnsubscribeFn(ws, ls, lid) ==
    IF ws[lid].closed THEN [w |-> [ws EXCEPT ![lid].again = TRUE], ls |-> ls]
    ELSE RemoveListener(ws, ls, lid)

\* ---------------------------------------------------------------- sort
\* Array.prototype.sort((a, b) => b.priority - a.priority): a stable sort,
\* written as an insertion sort that keeps equal keys in their order.
RECURSIVE InsertByPriority(_, _, _)
InsertByPriority(ws, sorted, lid) ==
    IF sorted = << >> THEN <<lid>>
    ELSE IF ws[Head(sorted)].priority >= ws[lid].priority
         THEN <<Head(sorted)>> \o InsertByPriority(ws, Tail(sorted), lid)
         ELSE <<lid>> \o sorted

RECURSIVE SortByPriority(_, _)
SortByPriority(ws, s) ==
    IF s = << >> THEN << >>
    ELSE InsertByPriority(ws, SortByPriority(ws, SubSeq(s, 1, Len(s) - 1)), s[Len(s)])

\* ------------------------------------------------ ListenerWrapper.execute
\* One entry per listener of an emission's snapshot: the promise returned by
\* wrapper.execute(event).  ran: the listener body was invoked;
\* st: "running" | "fulfilled" | "rejected"; err: "none" | "body" | "timeout";
\* bodyDone: the promise returned by the listener body has settled.
Outcome(lid, ran, st, err, bodyDone) ==
    [lid |-> lid, ran |-> ran, st |-> st, err |-> err, bodyDone |-> bodyDone]

\* The callback of once(), were it to leave the subscription in place and
\* rely on the wrapper's own once option
OnceCallbackKeepsSubscription(d, lid, event) ==
    LET thrown == d.w[lid].user = "throw"
        w2 == IF thrown \/ d.w[lid].resolved # << >> THEN d.w
              ELSE [d.w EXCEPT ![lid].resolved = <<event>>]
    IN  [d EXCEPT !.w = w2,
                  !.ex = Append(@, Outcome(lid, TRUE,
                                           IF thrown THEN "rejected" ELSE "running",
                                           IF thrown THEN "body" ELSE "none",
                                           thrown))]

\* The callback that once() registers: unsubscribe, call the caller's
\* listener if there is one, resolve the promise.  A throwing listener leaves
\* the callback before resolve(event).
OnceCallback(d, lid, event) ==
    LET u == UnsubscribeFn(d.w, d.ls, lid)
        thrown == u.w[lid].user = "throw"
        w2 == IF thrown \/ u.w[lid].resolved # << >> THEN u.w
              ELSE [u.w EXCEPT ![lid].resolved = <<event>>]
    IN  [d EXCEPT !.w = w2, !.ls = u.ls,
                  !.ex = Append(@, Outcome(lid, TRUE,
                                           IF thrown THEN "rejected" ELSE "running",
                                           IF thrown THEN "body" ELSE "none",
                                           thrown))]

\* subscription.unsubscribe() on the subscriptions of the listeners lids
RECURSIVE UnsubscribeEach(_, _)
UnsubscribeEach(u, lids) ==
    IF lids = << >> THEN u
    ELSE UnsubscribeEach(UnsubscribeFn(u.w, u.ls, Head(lids)), Tail(lids))

\* What a listener body does to the emitter before it first suspends:
\* "register" calls on(event.type, listener), "unsubOthers" closes the
\* subscriptions of the other listeners of the name, "removeAll" calls
\* removeAllListeners(event.type); the other bodies leave the emitter alone
BodyEffect(d, lid, event) ==
    LET body == d.w[lid].body IN
    IF body = "register"
    THEN [d EXCEPT !.w = Append(@, NewWrapper(event.type, "ok", "none", d.w[lid].options)),
                   !.ls[event.type] = Append(@, Len(d.w) + 1)]
    ELSE IF body = "unsubOthers"
    THEN LET u == UnsubscribeEach([w |-> d.w, ls |-> d.ls],
                      SelectSeq(d.ls[event.type], LAMBDA x : x # lid))
         IN  [d EXCEPT !.w = u.w, !.ls = u.ls]
    ELSE IF body = "removeAll"
    THEN [d EXCEPT !.ls[event.type] = << >>, !.cleared = TRUE]
    ELSE d

\* The synchronous part of the listener body, called from execute()
CallListener(d, lid, event) ==
    LET body == d.w[lid].body IN
    IF body = "once" THEN OnceCallback(d, lid, event)
    ELSE IF body = "throw"
         THEN [d EXCEPT !.ex = Append(@, Outcome(lid, TRUE, "rejected", "body", TRUE))]
         ELSE [BodyEffect(d, lid, event) EXCEPT
                  !.ex = Append(@, Outcome(lid, TRUE, "running", "none", FALSE))]

\* The ceiling test, were it to let the call through when the counter has
\* just reached maxCalls
CallCeilingExceeded(w) ==
    w.options.maxCalls # 0 /\ w.callCount > w.options.maxCalls

\* `this.options.maxCalls && this.callCount >= this.options.maxCalls`
CallCeilingReached(w) ==
    w.options.maxCalls # 0 /\ w.callCount >= w.options.maxCalls

\* wrapper.execute(event) up to its first suspension.  d carries the state
\* the call can change: the wrappers, the registry, the outcomes so far and
\* the log of started bodies.
Execute(d, lid, event, em) ==
    LET w == d.w[lid] IN
    IF w.isDisposed
    THEN [d EXCEPT !.ex = Append(@, Outcome(lid, FALSE, "fulfilled", "none", TRUE))]
    ELSE IF CallCeilingReached(w)
    THEN [d EXCEPT !.w[lid].isDisposed = TRUE,
                   !.ex = Append(@, Outcome(lid, FALSE, "fulfilled", "none", TRUE))]
    ELSE IF w.options.cond # 0 /\ ~Condition(w.options, event)
    THEN [d EXCEPT !.ex = Append(@, Outcome(lid, FALSE, "fulfilled", "none", TRUE))]
    ELSE CallListener([d EXCEPT !.w[lid].callCount = @ + 1,
                                !.w[lid].bodyCalls = @ + 1,
                                !.log = Append(@, [em |-> em, lid |-> lid, event |-> event])],
                      lid, event)

\* The fan-out, were it a loop that stops at the first listener that throws
RECURSIVE ExecuteUntilThrow(_, _, _, _)
ExecuteUntilThrow(d, sorted, event, em) ==
    IF sorted = << >> THEN d
    ELSE LET d2 == Execute(d, Head(sorted), event, em) IN
         IF d2.ex[Len(d2.ex)].st = "rejected" THEN d2
         ELSE ExecuteUntilThrow(d2, Tail(sorted), event, em)

\* sortedListeners.map(wrapper => wrapper.execute(event))
RECURSIVE ExecuteAll(_, _, _, _)
ExecuteAll(d, sorted, event, em) ==
    IF sorted = << >> THEN d
    ELSE ExecuteAll(Execute(d, Head(sorted), event, em), Tail(sorted), event, em)

\* The fan-out, were it to walk the live Set of the name instead of a copy:
\* a listener added meanwhile is reached, one deleted meanwhile is not
RECURSIVE ExecuteLive(_, _, _, _)
ExecuteLive(d, i, event, em) ==
    IF i > Len(d.ls[event.type]) THEN d
    ELSE LET lid == d.ls[event.type][i]
             d2 == Execute(d, lid, event, em)
             k == IndexOf(d2.ls[event.type], lid)
         IN  ExecuteLive(d2, IF k = 0 THEN i ELSE k + 1, event, em)

NotifyListenersLive(ws, ls, log, event, em) ==
    LET sorted == SortByPriority(ws, ls[event.type])
        d == ExecuteLive([w |-> ws, ls |-> ls, ex |-> << >>, log |-> log,
                          cleared |-> FALSE], 1, event, em)
    IN  [w |-> d.w, ls |-> d.ls, ex |-> d.ex, log |-> d.log, sorted |-> sorted,
         cleared |-> d.cleared]

\* TypedEventEmitter.notifyListeners up to `await Promise.allSettled(...)`:
\* `Array.from(listenersSet)`, the sort, and the calls of execute.  cleared
\* tells that a listener body called removeAllListeners(event.type).
NotifyListeners(ws, ls, log, event, em) ==
    LET sorted == SortByPriority(ws, ls[event.type])
        d == ExecuteAll([w |-> ws, ls |-> ls, ex |-> << >>, log |-> log,
                         cleared |-> FALSE], sorted, event, em)
    IN  [w |-> d.w, ls |-> d.ls, ex |-> d.ex, log |-> d.log, sorted |-> sorted,
         cleared |-> d.cleared]

\* The observables map after notifyListeners
ObservablesAfter(r, eventType) ==
    IF r.cleared THEN [observables EXCEPT ![eventType] = 0] ELSE observables

\* ------------------------------------------------------------ middleware
\* A middleware instance: before: "none" | "pass" | "tag" | "throw" |
\* "validate", process: "none" | "pass" | "validate",
\* onError: "none" | "ok" | "throw", after: "none" | "ok" | "throw".
\* A "tag" before hook returns a new event that carries the instance's id;
\* a "validate" hook throws a ValidationError when the validator rejects.

\* validator.validate(event.payload).isValid for the validator registered
\* under the event's name: it accepts payload 1 only
Validate(event) == event.payload = 1

\* The before hook of instance m, called with event, throws
BeforeThrows(m, event) ==
    \/ mws[m].before = "throw"
    \/ mws[m].before = "validate" /\ ~Validate(event)

BeforeResult(m, event) ==
    IF mws[m].before = "tag" THEN [event EXCEPT !.trace = Append(@, m)] ELSE event

\* The next index of the live array, from i on, whose instance has the hook
\* (0: the loop is over)
RECURSIVE NextWith(_, _, _)
NextWith(hook, arr, i) ==
    IF i > Len(arr) THEN 0
    ELSE IF mws[arr[i]][hook] # "none" THEN i
    ELSE NextWith(hook, arr, i + 1)

\* TypedEventEmitter.createEvent
CreateEvent(eventType, payload, id) ==
    [type |-> eventType, payload |-> payload, id |-> id, trace |-> << >>]

\* The result emit returns from its catch branch
FailureResult ==
    [ listenersNotified |-> 0,
      errors  |-> << [listenerId |-> MiddlewareId, error |-> "pipeline"] >>,
      success |-> FALSE ]

NoResult == [listenersNotified |-> 0, errors |-> << >>, success |-> FALSE]

\* The observers subscribed to the streams of a name
ObserversOf(eventType) ==
    UNION { Range(obs[streams[s].obs].observers) :
            s \in {x \in 1..Len(streams) :
                      streams[x].type = eventType /\ streams[x].obs # 0} }

\* An emit() call.  atStart, subsAtCall, subsAtDone and doneAfter are not
\* state of the program: they record the middleware list and the observers
\* of the name's streams when emit was called, those observers when emit
\* resolved, and the dispose() calls that had reset the counters by then.
NewEmission(event, skip) ==
    [ type |-> event.type, skip |-> skip, event |-> event, processed |-> event,
      pc |-> "new", mwIdx |-> 0, errIdx |-> 0, thrown |-> 0,
      hooks |-> << >>, errHooks |-> << >>, atStart |-> middlewares,
      subsAtCall |-> ObserversOf(event.type), subsAtDone |-> {},
      doneAfter |-> 0,
      sorted |-> << >>, ex |-> << >>, result |-> NoResult ]

\* ----------------------------------------------------------------- state
\* A RateLimitMiddleware after its construction: no key has an entry
NoCountInfo == [count |-> 0, windowStart |-> 0, lastEvent |-> 0, present |-> FALSE]

InitRate ==
    /\ eventCounts = [k \in Names |-> NoCountInfo]
    /\ rateLog = << >>

\* An emitter built without options: neither dispose() nor on() was called
InitLife ==
    /\ disposals = << >>
    /\ onLog = << >>
    /\ maxListenersPerEvent = MAX_LISTENERS_PER_EVENT

\* No stream has been built
InitStreams ==
    /\ obs = << >>
    /\ subs = << >>
    /\ timers = << >>
    /\ fed = << >>

InitOther ==
    /\ now = 0
    /\ InitRate
    /\ InitLife
    /\ InitStreams

\* The emitter after its construction
InitEmitter ==
    /\ wrappers = << >>
    /\ listeners = [n \in Names |-> << >>]
    /\ mws = << >>
    /\ middlewares = << >>
    /\ emissions = << >>
    /\ started = << >>
    /\ obsSets = << >>
    /\ observables = [n \in Names |-> 0]
    /\ streams = << >>
    /\ tasks = << >>
    /\ afterRuns = << >>
    /\ eventCounter = 0
    /\ totalEventsEmitted = 0

Init ==
    /\ InitEmitter
    /\ InitOther

\* ---------------------------------------------------------- registration
\* on(eventType, listener, options); limit bounds the registrations and is
\* below the configured maxListenersPerEvent
On(limit, nameSet, optionSet, bodySet) ==
    /\ Len(wrappers) < limit
    /\ \E n \in nameSet, o \in optionSet, b \in bodySet :
          /\ wrappers' = Append(wrappers, NewWrapper(n, b, "none", o))
          /\ listeners' = [listeners EXCEPT ![n] = Append(@, Len(wrappers) + 1)]
    /\ UNCHANGED otherVars
    /\ UNCHANGED <<mws, middlewares, emissions, started, obsSets, observables,
                   streams, tasks, afterRuns, eventCounter, totalEventsEmitted>>

\* validateEventType and validateListener: "" stands for a name that is
\* empty or not a string, "notFunction" for a listener that is not a function
ValidEventType(n) == n # ""

ValidListener(l) == l # "notFunction"

\* on(eventType, listener) throws: the ceiling is tested only when the name
\* has an entry in the listeners map
OnThrows(n, l) ==
    \/ ~ValidEventType(n)
    \/ ~ValidListener(l)
    \/ listeners[n] # << >> /\ Len(listeners[n]) >= maxListenersPerEvent

\* on(eventType, listener) with any arguments: the call is recorded with the
\* registry before and after it
OnChecked(limit, nameSet, listenerSet) ==
    /\ Len(onLog) < limit
    /\ \E n \in nameSet, l \in listenerSet :
          LET threw == OnThrows(n, l)
              ws == IF threw THEN wrappers
                    ELSE Append(wrappers, NewWrapper(n, l, "none",
                                   [hasPrio |-> FALSE, prio |-> 0, cond |-> 0,
                                    timeout |-> 0, maxCalls |-> 0, once |-> FALSE]))
              ls == IF threw THEN listeners
                    ELSE [listeners EXCEPT ![n] = Append(@, Len(wrappers) + 1)]
          IN  /\ wrappers' = ws
              /\ listeners' = ls
              /\ onLog' = Append(onLog, [name |-> n, listener |-> l, threw |-> threw,
                                         before |-> listeners, after |-> ls,
                                         made |-> Len(ws) - Len(wrappers)])
    /\ UNCHANGED <<now, rateVars, streamVars, disposals, maxListenersPerEvent>>
    /\ UNCHANGED <<mws, middlewares, emissions, started, obsSets, observables,
                   streams, tasks, afterRuns, eventCounter, totalEventsEmitted>>

OnceOptions ==
    [hasPrio |-> FALSE, prio |-> 0, cond |-> 0, timeout |-> 0, maxCalls |-> 0,
     once |-> TRUE]

\* once(eventType, listener?)
Once(limit, nameSet, userSet) ==
    /\ Len(wrappers) < limit
    /\ \E n \in nameSet, u \in userSet :
          /\ wrappers' = Append(wrappers, NewWrapper(n, "once", u, OnceOptions))
          /\ listeners' = [listeners EXCEPT ![n] = Append(@, Len(wrappers) + 1)]
    /\ UNCHANGED otherVars
    /\ UNCHANGED <<mws, middlewares, emissions, started, obsSets, observables,
                   streams, tasks, afterRuns, eventCounter, totalEventsEmitted>>

\* subscription.unsubscribe() on the subscription on() returned for lid
UnsubscribeOf(lid) ==
    /\ wrappers[lid].body # "once"
    /\ LET u == UnsubscribeFn(wrappers, listeners, lid) IN
          /\ wrappers' = u.w
          /\ listeners' = u.ls
    /\ UNCHANGED otherVars
    /\ UNCHANGED <<mws, middlewares, emissions, started, obsSets, observables,
                   streams, tasks, afterRuns, eventCounter, totalEventsEmitted>>

Unsubscribe == \E lid \in 1..Len(wrappers) : UnsubscribeOf(lid)

\* The first unsubscribe() on the subscription of one of the first `limit`
\* listeners
UnsubscribeOpen(limit) ==
    \E lid \in 1..Len(wrappers) :
        /\ lid <= limit
        /\ ~wrappers[lid].closed
        /\ UnsubscribeOf(lid)

\* removeAllListeners(eventType)
RemoveAllListeners(nameSet) ==
    /\ \E n \in nameSet :
          /\ listeners[n] # << >> \/ observables[n] # 0
          /\ listeners' = [listeners EXCEPT ![n] = << >>]
          /\ observables' = [observables EXCEPT ![n] = 0]
    /\ UNCHANGED otherVars
    /\ UNCHANGED <<wrappers, mws, middlewares, emissions, started, obsSets,
                   streams, tasks, afterRuns, eventCounter, totalEventsEmitted>>

\* use(middleware) with a new instance
Use(limit, kindSet) ==
    /\ Len(mws) < limit
    /\ \E k \in kindSet :
          /\ mws' = Append(mws, k)
          /\ middlewares' = Append(middlewares, Len(mws) + 1)
    /\ UNCHANGED otherVars
    /\ UNCHANGED <<wrappers, listeners, emissions, started, obsSets, observables,
                   streams, tasks, afterRuns, eventCounter, totalEventsEmitted>>

\* removeMiddleware(instance)
RemoveMiddleware ==
    /\ \E m \in 1..Len(mws) :
          /\ IndexOf(middlewares, m) > 0
          /\ middlewares' = RemoveAt(middlewares, IndexOf(middlewares, m))
    /\ UNCHANGED otherVars
    /\ UNCHANGED <<wrappers, listeners, mws, emissions, started, obsSets,
                   observables, streams, tasks, afterRuns, eventCounter,
                   totalEventsEmitted>>

\* stream(eventType)
Stream(limit, nameSet) ==
    /\ Len(streams) < limit
    /\ \E n \in nameSet :
          /\ streams' = Append(streams, [type |-> n, isCompleted |-> FALSE,
                                         received |-> << >>, obs |-> 0,
                                         born |-> Len(emissions)])
          /\ IF observables[n] = 0
             THEN /\ obsSets' = Append(obsSets, <<Len(streams) + 1>>)
                  /\ observables' = [observables EXCEPT ![n] = Len(obsSets) + 1]
             ELSE /\ obsSets' = [obsSets EXCEPT ![observables[n]] =
                                    Append(@, Len(streams) + 1)]
                  /\ UNCHANGED observables
    /\ UNCHANGED otherVars
    /\ UNCHANGED <<wrappers, listeners, mws, middlewares, emissions, started,
                   tasks, afterRuns, eventCounter, totalEventsEmitted>>

\* getActiveEventTypes(): the keys of the listeners map.  on() creates a
\* name's entry with its first listener, removeListener deletes it with the
\* last one, removeAllListeners deletes it.
ActiveEventTypes == {n \in Names : listeners[n] # << >>}

\* Stream s is added to the Set object of every name of a set, Set objects
\* being created for the names that have none; r is [sets, map]
RECURSIVE AddToSets(_, _, _)
AddToSets(r, names, s) ==
    IF names = {} THEN r
    ELSE LET n == CHOOSE x \in names : TRUE IN
         AddToSets(IF r.map[n] = 0
                   THEN [sets |-> Append(r.sets, <<s>>),
                         map  |-> [r.map EXCEPT ![n] = Len(r.sets) + 1]]
                   ELSE [sets |-> [r.sets EXCEPT ![r.map[n]] = Append(@, s)],
                         map  |-> r.map],
                   names \ {n}, s)

\* stream() without a name
StreamAll(limit) ==
    /\ Len(streams) < limit
    /\ streams' = Append(streams, [type |-> "*", isCompleted |-> FALSE,
                                   received |-> << >>, obs |-> 0,
                                   born |-> Len(emissions)])
    /\ LET r == AddToSets([sets |-> obsSets, map |-> observables],
                          ActiveEventTypes, Len(streams) + 1)
       IN  /\ obsSets' = r.sets
           /\ observables' = r.map
    /\ UNCHANGED otherVars
    /\ UNCHANGED <<wrappers, listeners, mws, middlewares, emissions, started,
                   tasks, afterRuns, eventCounter, totalEventsEmitted>>

\* ------------------------------------------------------------- emission
\* pc of an emission: "inBefore" (suspended in a before hook), "preDispatch"
\* (runBeforeMiddlewares has returned, emit not yet resumed), "inOnError"
\* (suspended in an onError hook after a before hook threw), "awaitListeners"
\* (suspended in Promise.allSettled), "done" (emit has resolved).

\* runBeforeMiddlewares, were it to hand the event emit created to every hook
\* instead of the event the previous hook returned
RunBeforeFromOriginal(em, from) ==
    LET i == NextWith("before", middlewares, from) IN
    IF i = 0 THEN [em EXCEPT !.pc = "preDispatch"]
    ELSE [em EXCEPT !.pc = "inBefore", !.mwIdx = i, !.processed = em.event,
                    !.hooks = Append(@, [mw |-> middlewares[i],
                                         input |-> em.event,
                                         settled |-> FALSE])]

\* The loop of runBeforeMiddlewares from index `from` of the live array on,
\* up to the call of the next before hook
RunBeforeFrom(em, from) ==
    LET i == NextWith("before", middlewares, from) IN
    IF i = 0 THEN [em EXCEPT !.pc = "preDispatch"]
    ELSE [em EXCEPT !.pc = "inBefore", !.mwIdx = i,
                    !.hooks = Append(@, [mw |-> middlewares[i],
                                         input |-> em.processed,
                                         settled |-> FALSE])]

\* The number of dispose() calls that have reset the counters
Resets == Cardinality({d \in 1..Len(disposals) : disposals[d].pc = "done"})

\* The loop of runErrorMiddlewares from index `from` on, up to the call of
\* the next onError hook; when the loop is over the error is thrown again
\* and emit resolves in its catch branch
\* and emit returns from its catch branch
RunErrorFrom(em, from) ==
    LET j == NextWith("onError", middlewares, from) IN
    IF j = 0 THEN [em EXCEPT !.pc = "done", !.result = FailureResult,
                             !.doneAfter = Resets]
    ELSE [em EXCEPT !.pc = "inOnError", !.errIdx = j,
                    !.errHooks = Append(@, middlewares[j])]

\* generateEventId(): `evt_${Date.now()}_${this.eventCounter}_${random}`
\* after the counter's increment, as the parts the string is built from
GenerateEventId(random) ==
    [given |-> "", t |-> now, n |-> eventCounter + 1, r |-> random]

\* `options.id || this.generateEventId()`; "" stands for an absent id.  An
\* id of the caller is any string; those of the model differ from every
\* generated one.
EventIdOf(given, random) ==
    IF given # "" THEN [given |-> given, t |-> 0, n |-> 0, r |-> 0]
    ELSE GenerateEventId(random)

\* emit(eventType, payload, options) up to its first suspension, options.id
\* drawn from idSet and Math.random() from randomSet
EmitWith(limit, nameSet, payloadSet, skipSet, idSet, randomSet) ==
    /\ Len(emissions) < limit
    /\ \E n \in nameSet, p \in payloadSet, skip \in skipSet,
          given \in idSet, random \in randomSet :
          LET id == Len(emissions) + 1
              event == CreateEvent(n, p, EventIdOf(given, random))
              em == NewEmission(event, skip)
          IN  /\ eventCounter' = IF given # "" THEN eventCounter
                                 ELSE eventCounter + 1
              /\ IF skip
                 THEN LET r == NotifyListeners(wrappers, listeners, started,
                                               event, id) IN
                      /\ emissions' = Append(emissions,
                             [em EXCEPT !.pc = "awaitListeners",
                                        !.sorted = r.sorted, !.ex = r.ex])
                      /\ wrappers' = r.w
                      /\ listeners' = r.ls
                      /\ started' = r.log
                      /\ observables' = ObservablesAfter(r, n)
                 ELSE /\ emissions' = Append(emissions, RunBeforeFrom(em, 1))
                      /\ UNCHANGED <<wrappers, listeners, started, observables>>
    /\ UNCHANGED otherVars
    /\ UNCHANGED <<mws, middlewares, obsSets, streams, tasks, afterRuns,
                   totalEventsEmitted>>

\* emit(eventType, payload, options) without options.id
Emit(limit, nameSet, payloadSet, skipSet) ==
    EmitWith(limit, nameSet, payloadSet, skipSet, {""}, {0})

\* A before hook settles and runBeforeMiddlewares goes on
BeforeEnd ==
    /\ \E e \in 1..Len(emissions) :
          /\ emissions[e].pc = "inBefore"
          /\ LET em == emissions[e]
                 m == em.hooks[Len(em.hooks)].mw
                 settled == [em EXCEPT !.hooks[Len(em.hooks)].settled = TRUE]
             IN  IF BeforeThrows(m, em.hooks[Len(em.hooks)].input)
                 THEN emissions' = [emissions EXCEPT ![e] =
                         RunErrorFrom([settled EXCEPT !.thrown = m], 1)]
                 ELSE emissions' = [emissions EXCEPT ![e] =
                         RunBeforeFrom([settled EXCEPT !.processed = BeforeResult(m, @)],
                                       em.mwIdx + 1)]
    /\ UNCHANGED otherVars
    /\ UNCHANGED <<wrappers, listeners, mws, middlewares, started, obsSets,
                   observables, streams, tasks, afterRuns, eventCounter,
                   totalEventsEmitted>>

\* An onError hook settles (its own failure is only logged) and
\* runErrorMiddlewares goes on
OnErrorEnd ==
    /\ \E e \in 1..Len(emissions) :
          /\ emissions[e].pc = "inOnError"
          /\ emissions' = [emissions EXCEPT ![e] =
                              RunErrorFrom(emissions[e], emissions[e].errIdx + 1)]
    /\ UNCHANGED otherVars
    /\ UNCHANGED <<wrappers, listeners, mws, middlewares, started, obsSets,
                   observables, streams, tasks, afterRuns, eventCounter,
                   totalEventsEmitted>>

\* emit resumes after runBeforeMiddlewares and calls notifyListeners
Dispatch ==
    /\ \E e \in 1..Len(emissions) :
          /\ emissions[e].pc = "preDispatch"
          /\ LET r == NotifyListeners(wrappers, listeners, started,
                                      emissions[e].processed, e) IN
                /\ emissions' = [emissions EXCEPT ![e].pc = "awaitListeners",
                                                  ![e].sorted = r.sorted,
                                                  ![e].ex = r.ex]
                /\ wrappers' = r.w
                /\ listeners' = r.ls
                /\ started' = r.log
                /\ observables' = ObservablesAfter(r, emissions[e].type)
    /\ UNCHANGED otherVars
    /\ UNCHANGED <<mws, middlewares, obsSets, streams, tasks, afterRuns,
                   eventCounter, totalEventsEmitted>>

\* The promise returned by a listener body settles and execute() goes on to
\* its end: `if (this.options.once) this.dispose()` after a success
BodySettle ==
    /\ \E e \in 1..Len(emissions) : \E i \in 1..Len(emissions[e].ex) :
          LET x == emissions[e].ex[i]
              w == wrappers[x.lid]
          IN  /\ emissions[e].pc = "awaitListeners"
              /\ x.st = "running"
              /\ w.body \in {"ok", "reject", "once", "register", "unsubOthers",
                            "removeAll"}
              /\ IF w.body = "reject"
                 THEN /\ emissions' = [emissions EXCEPT ![e].ex[i] =
                             Outcome(x.lid, TRUE, "rejected", "body", TRUE)]
                      /\ UNCHANGED wrappers
                 ELSE /\ emissions' = [emissions EXCEPT ![e].ex[i] =
                             Outcome(x.lid, TRUE, "fulfilled", "none", TRUE)]
                      /\ wrappers' = IF w.options.once
                                     THEN [wrappers EXCEPT ![x.lid].isDisposed = TRUE]
                                     ELSE wrappers
    /\ UNCHANGED otherVars
    /\ UNCHANGED <<listeners, mws, middlewares, started, obsSets, observables,
                   streams, tasks, afterRuns, eventCounter, totalEventsEmitted>>

\* The timer, were its firing to resolve the race instead of rejecting it
TimeoutFireResolves ==
    /\ \E e \in 1..Len(emissions) : \E i \in 1..Len(emissions[e].ex) :
          LET x == emissions[e].ex[i] IN
              /\ emissions[e].pc = "awaitListeners"
              /\ x.st = "running"
              /\ wrappers[x.lid].options.timeout # 0
              /\ emissions' = [emissions EXCEPT ![e].ex[i] =
                     Outcome(x.lid, TRUE, "fulfilled", "timeout", FALSE)]
    /\ UNCHANGED otherVars
    /\ UNCHANGED <<wrappers, listeners, mws, middlewares, started, obsSets,
                   observables, streams, tasks, afterRuns, eventCounter,
                   totalEventsEmitted>>

\* The timer of executeWithTimeout fires before the body has settled
TimeoutFire ==
    /\ \E e \in 1..Len(emissions) : \E i \in 1..Len(emissions[e].ex) :
          LET x == emissions[e].ex[i] IN
              /\ emissions[e].pc = "awaitListeners"
              /\ x.st = "running"
              /\ wrappers[x.lid].options.timeout # 0
              /\ emissions' = [emissions EXCEPT ![e].ex[i] =
                     Outcome(x.lid, TRUE, "rejected", "timeout", FALSE)]
    /\ UNCHANGED otherVars
    /\ UNCHANGED <<wrappers, listeners, mws, middlewares, started, obsSets,
                   observables, streams, tasks, afterRuns, eventCounter,
                   totalEventsEmitted>>

\* results.forEach(...) of notifyListeners
SuccessCount(ex) == Cardinality({i \in 1..Len(ex) : ex[i].st = "fulfilled"})

RECURSIVE Errors(_)
Errors(ex) ==
    IF ex = << >> THEN << >>
    ELSE IF Head(ex).st = "rejected"
         THEN <<[listenerId |-> Head(ex).lid, error |-> Head(ex).err]>>
              \o Errors(Tail(ex))
         ELSE Errors(Tail(ex))

\* The dispatch result, were success not derived from the errors
DispatchResultAlwaysSuccess(ex) ==
    [ listenersNotified |-> SuccessCount(ex),
      errors  |-> Errors(ex),
      success |-> TRUE ]

\* The result emit returns on the dispatch path
DispatchResult(ex) ==
    [ listenersNotified |-> SuccessCount(ex),
      errors  |-> Errors(ex),
      success |-> Len(Errors(ex)) = 0 ]

\* notifyObservables: the callback queued with setImmediate holds the Set
\* object found under the event's name
NotifyObservables(queue, event) ==
    IF observables[event.type] = 0 THEN queue
    ELSE Append(queue, [kind |-> "obs", set |-> observables[event.type],
                        event |-> event])

\* Promise.allSettled has resolved: emit aggregates, queues the stream and
\* after-middleware callbacks and resolves
Finish ==
    /\ \E e \in 1..Len(emissions) :
          LET em == emissions[e] IN
              /\ em.pc = "awaitListeners"
              /\ \A i \in 1..Len(em.ex) : em.ex[i].st # "running"
              /\ emissions' = [emissions EXCEPT ![e].pc = "done",
                                                ![e].result = DispatchResult(em.ex),
                                                ![e].subsAtDone = ObserversOf(em.type),
                                                ![e].doneAfter = Resets]
              /\ tasks' = LET q == NotifyObservables(tasks, em.processed) IN
                          IF em.skip THEN q
                          ELSE Append(q, [kind |-> "after", set |-> 0,
                                          event |-> em.processed])
    /\ totalEventsEmitted' = totalEventsEmitted + 1
    /\ UNCHANGED otherVars
    /\ UNCHANGED <<wrappers, listeners, mws, middlewares, started, obsSets,
                   observables, streams, afterRuns, eventCounter>>

\* -------------------------------------------------- setImmediate callbacks
\* The loop of runAfterMiddlewares from index `from` on, up to the call of
\* the next after hook
RunAfterFrom(r, from) ==
    LET i == NextWith("after", middlewares, from) IN
    IF i = 0 THEN [r EXCEPT !.pc = "done"]
    ELSE [r EXCEPT !.pc = "inAfter", !.idx = i,
                   !.hooks = Append(@, middlewares[i])]

\* runErrorMiddlewares called from runAfterMiddlewares: when its loop is over
\* the loop of the after hooks goes on
RunAfterErrorFrom(r, from) ==
    LET j == NextWith("onError", middlewares, from) IN
    IF j = 0 THEN RunAfterFrom(r, r.idx + 1)
    ELSE [r EXCEPT !.pc = "inOnError", !.errIdx = j,
                   !.errHooks = Append(@, middlewares[j])]

\* The callback `() => this.runAfterMiddlewares(processedEvent)` runs
RunAfter ==
    /\ tasks # << >>
    /\ Head(tasks).kind = "after"
    /\ afterRuns' = Append(afterRuns,
           RunAfterFrom([event |-> Head(tasks).event, pc |-> "new", idx |-> 0,
                         errIdx |-> 0, hooks |-> << >>, errHooks |-> << >>], 1))
    /\ tasks' = Tail(tasks)
    /\ UNCHANGED otherVars
    /\ UNCHANGED <<wrappers, listeners, mws, middlewares, emissions, started,
                   obsSets, observables, streams, eventCounter, totalEventsEmitted>>

\* An after hook settles
AfterEnd ==
    /\ \E a \in 1..Len(afterRuns) :
          /\ afterRuns[a].pc = "inAfter"
          /\ LET r == afterRuns[a]
                 m == r.hooks[Len(r.hooks)]
             IN  afterRuns' = [afterRuns EXCEPT ![a] =
                     IF mws[m].after = "throw" THEN RunAfterErrorFrom(r, 1)
                     ELSE RunAfterFrom(r, r.idx + 1)]
    /\ UNCHANGED otherVars
    /\ UNCHANGED <<wrappers, listeners, mws, middlewares, emissions, started,
                   obsSets, observables, streams, tasks, eventCounter,
                   totalEventsEmitted>>

\* An onError hook called for a failed after hook settles
AfterOnErrorEnd ==
    /\ \E a \in 1..Len(afterRuns) :
          /\ afterRuns[a].pc = "inOnError"
          /\ afterRuns' = [afterRuns EXCEPT ![a] =
                              RunAfterErrorFrom(afterRuns[a], afterRuns[a].errIdx + 1)]
    /\ UNCHANGED otherVars
    /\ UNCHANGED <<wrappers, listeners, mws, middlewares, emissions, started,
                   obsSets, observables, streams, tasks, eventCounter,
                   totalEventsEmitted>>

\* ---------------------------------------------------- RateLimitMiddleware
\* Time passes
Tick(limit) ==
    /\ now < limit
    /\ now' = now + 1
    /\ UNCHANGED <<emitterVars, lifeVars, rateVars, streamVars>>

\* The hook of RateLimitMiddleware (process in one revision of the file,
\* before in the other) called with an event of the key.  The EventCountInfo
\* found in the map is changed in place, so the reset of an expired window
\* is kept when the call throws; a fresh one is stored only when the event
\* passes.
RateLimitBefore(limit, keySet) ==
    /\ Len(rateLog) < limit
    /\ \E key \in keySet :
          LET found == eventCounts[key]
              fresh == [count |-> 0, windowStart |-> now, lastEvent |-> 0,
                        present |-> FALSE]
              info0 == IF found.present THEN found ELSE fresh
              info1 == IF now - info0.windowStart >= RateWindowMs
                       THEN [info0 EXCEPT !.count = 0, !.windowStart = now]
                       ELSE info0
              throws == \/ info1.count >= RateMaxEvents
                        \/ /\ RateMinInterval # 0
                           /\ info1.lastEvent # 0
                           /\ now - info1.lastEvent < RateMinInterval
          IN  /\ eventCounts' = [eventCounts EXCEPT ![key] =
                     IF throws THEN info1
                     ELSE [info1 EXCEPT !.count = @ + 1, !.lastEvent = now,
                                        !.present = TRUE]]
              /\ rateLog' = Append(rateLog, [key |-> key, t |-> now,
                                             passed |-> ~throws])
    /\ UNCHANGED <<emitterVars, lifeVars, now, streamVars>>

\* The callback of the instance's setInterval: cleanup()
RateLimitCleanup ==
    /\ \E k \in Names : /\ eventCounts[k].present
                        /\ now - eventCounts[k].windowStart >= RateWindowMs * 2
    /\ eventCounts' = [k \in Names |->
           IF eventCounts[k].present
              /\ now - eventCounts[k].windowStart >= RateWindowMs * 2
           THEN NoCountInfo ELSE eventCounts[k]]
    /\ UNCHANGED <<emitterVars, lifeVars, now, rateLog, streamVars>>

\* ------------------------------------------------------------ observable
\* A stream: [isCompleted, hasError, observers], observers being the Set of
\* subscribed observers in insertion order.
NewObservable == [isCompleted |-> FALSE, hasError |-> FALSE, observers |-> << >>]

\* An observer: kind "sink" is an observer of the caller, which records the
\* notifications it receives in log and whose next throws on value throwsOn
\* (0: never); the other kinds are the observers the operators subscribe,
\* target being the stream the operator returned, n the operator's argument,
\* cnt, last, seen and buf the variables of its closure.
NewObserver(kind, target, n, throwsOn) ==
    [ kind |-> kind, target |-> target, n |-> n, throwsOn |-> throwsOn,
      cnt |-> 0, last |-> Undefined, seen |-> {}, buf |-> << >>, log |-> << >> ]

\* A call or notification: what, with which value, at what time, and after
\* how many calls on the source
Note(k, v) == [k |-> k, v |-> v, t |-> now, seq |-> Len(fed)]

IsClosed(st, o) == st.obs[o].isCompleted \/ st.obs[o].hasError

\* subscribe(observer) on stream o: the observer is added whatever the
\* state of the stream
SubscribeTo(st, o, observer) ==
    [st EXCEPT !.subs = Append(@, observer),
               !.obs[o].observers = Append(@, Len(st.subs) + 1)]

\* setTimeout(callback, delay) and clearTimeout
SetTimer(st, j, kind, delay, v) ==
    [st EXCEPT !.timers = Append(@, [sub |-> j, kind |-> kind,
                                     due |-> now + delay, v |-> v])]

ClearTimer(st, j, kind) ==
    [st EXCEPT !.timers = SelectSeq(@, LAMBDA x : ~(x.sub = j /\ x.kind = kind))]

HasTimer(st, j, kind) ==
    \E i \in 1..Len(st.timers) : st.timers[i].sub = j /\ st.timers[i].kind = kind

\* The callbacks of the operators in the model: the predicate of filter,
\* the mapper of map, the accumulator of scan, the key selector of distinct
\* and distinctUntilChanged (it reads a field that value 3 does not have)
Predicate(v) == v >= 2

Mapper(v) == v + 10

Accumulator(acc, v) == acc + v

KeySelector(v) == IF v = 3 THEN Undefined ELSE v

\* The test of filter's observer, were it to forward every value
FilterForwardsAll(v) == Predicate(v) \/ ~Predicate(v)

\* The timer of debounce set again, were the one set before left in place
RearmKeepingTimer(st, j) ==
    SetTimer(st, j, "debounce", st.subs[j].n, 0)

\* `if (timeoutId) clearTimeout(timeoutId); timeoutId = setTimeout(...)`
Rearm(st, j) ==
    SetTimer(ClearTimer(st, j, "debounce"), j, "debounce", st.subs[j].n, 0)

\* `if (predicate(event))` in filter's observer
FilterForwards(v) == Predicate(v)

\* The test that flushes the buffer, were it to wait for one more value
BufferFullLate(buf, size) == Len(buf) > size

\* `buffer.length >= size` in buffer's observer
BufferFull(buf, size) == Len(buf) >= size

\* `received < count` in take's observer
TakeOpen(b) == b.cnt < b.n

\* The test that completes the taken stream, were it to wait for one more value
TakeFullLate(b) == b.cnt > b.n

\* `received === count` in take's observer
TakeFull(b) == b.cnt = b.n

\* resolve / reject of the promise toPromise() returned for observer j: only
\* the first call settles the promise
Settle(st, j, k, v) ==
    IF st.subs[j].log = << >> THEN [st EXCEPT !.subs[j].log = << Note(k, v) >>]
    ELSE st

\* subscription.unsubscribe() of the subscription of observer j on stream o
UnsubscribeFrom(st, o, j) == [st EXCEPT !.obs[o].observers = Remove(@, j)]

RECURSIVE ObsNext(_, _, _), ObsError(_, _), ObsComplete(_, _)
RECURSIVE NextEach(_, _, _), ErrorEach(_, _), CompleteEach(_, _)
RECURSIVE ObserverNext(_, _, _), ObserverError(_, _), ObserverComplete(_, _)

\* observer.next(v) of observer j, with the catch of the stream's next():
\* an exception leaving the observer queues observer.error with setTimeout 0
ObserverNext(st, j, v) ==
    LET b == st.subs[j]
        thrown == b.throwsOn # 0 /\ b.throwsOn = v
    IN  CASE b.kind = "sink" ->
               LET st1 == [st EXCEPT !.subs[j].log = Append(@, Note("next", v))]
               IN  IF thrown THEN SetTimer(st1, j, "observerError", 0, 0) ELSE st1
          [] b.kind = "filter" ->
               IF thrown THEN ObsError(st, b.target)
               ELSE IF FilterForwards(v) THEN ObsNext(st, b.target, v)
               ELSE st
          [] b.kind = "map" ->
               IF thrown THEN ObsError(st, b.target)
               ELSE ObsNext(st, b.target, Mapper(v))
          [] b.kind = "scan" ->
               IF thrown THEN ObsError(st, b.target)
               ELSE LET acc == Accumulator(b.cnt, v) IN
                    ObsNext([st EXCEPT !.subs[j].cnt = acc], b.target, acc)
          [] b.kind = "distinct" ->
               IF thrown THEN SetTimer(st, j, "observerError", 0, 0)
               ELSE IF KeySelector(v) \in b.seen THEN st
               ELSE ObsNext([st EXCEPT !.subs[j].seen = @ \cup {KeySelector(v)}],
                            b.target, v)
          [] b.kind = "distinctUntilChanged" ->
               IF thrown THEN SetTimer(st, j, "observerError", 0, 0)
               ELSE IF KeySelector(v) = b.last THEN st
               ELSE ObsNext([st EXCEPT !.subs[j].last = KeySelector(v)],
                            b.target, v)
          [] b.kind = "take" ->
               IF TakeOpen(b)
               THEN LET st1 == ObsNext(st, b.target, v)
                        st2 == [st1 EXCEPT !.subs[j].cnt = @ + 1]
                    IN  IF TakeFull(st2.subs[j]) THEN ObsComplete(st2, b.target)
                        ELSE st2
               ELSE st
          [] b.kind = "buffer" ->
               LET buf == Append(b.buf, v) IN
               IF BufferFull(buf, b.n)
               THEN [ObsNext([st EXCEPT !.subs[j].buf = buf], b.target, buf)
                        EXCEPT !.subs[j].buf = << >>]
               ELSE [st EXCEPT !.subs[j].buf = buf]
          [] b.kind = "combine" -> ObsNext(st, b.target, v)
          [] b.kind = "promise" ->
               Settle(UnsubscribeFrom(st, b.target, j), j, "resolve", v)
          [] b.kind = "debounce" ->
               Rearm([st EXCEPT !.subs[j].last = v], j)
          [] b.kind = "throttle" ->
               IF now - b.cnt >= b.n
               THEN [ObsNext(st, b.target, v) EXCEPT !.subs[j].cnt = now]
               ELSE IF ~HasTimer(st, j, "throttle")
               THEN SetTimer(st, j, "throttle", b.n - (now - b.cnt), v)
               ELSE st

\* observer.error(error) of observer j
ObserverError(st, j) ==
    LET b == st.subs[j] IN
    CASE b.kind = "sink" -> [st EXCEPT !.subs[j].log = Append(@, Note("error", 0))]
      [] b.kind = "promise" ->
           Settle(UnsubscribeFrom(st, b.target, j), j, "rejectError", 0)
      [] b.kind = "debounce" -> ObsError(ClearTimer(st, j, "debounce"), b.target)
      [] b.kind = "throttle" -> ObsError(ClearTimer(st, j, "throttle"), b.target)
      [] OTHER -> ObsError(st, b.target)

\* observer.complete() of observer j
ObserverComplete(st, j) ==
    LET b == st.subs[j] IN
    CASE b.kind = "sink" -> [st EXCEPT !.subs[j].log = Append(@, Note("complete", 0))]
      [] b.kind = "promise" ->
           Settle(UnsubscribeFrom(st, b.target, j), j, "rejectEmpty", 0)
      [] b.kind = "debounce" ->
           LET st1 == ClearTimer(st, j, "debounce")
               st2 == IF b.last # 0 THEN ObsNext(st1, b.target, b.last) ELSE st1
           IN  ObsComplete(st2, b.target)
      [] b.kind = "throttle" -> ObsComplete(ClearTimer(st, j, "throttle"), b.target)
      [] b.kind = "buffer" ->
           ObsComplete(IF Len(b.buf) > 0 THEN ObsNext(st, b.target, b.buf) ELSE st,
                       b.target)
      [] b.kind = "combine" ->
           LET st1 == [st EXCEPT !.subs[b.n].cnt = @ + 1] IN
           IF st1.subs[b.n].cnt = 2 THEN ObsComplete(st1, b.target) ELSE st1
      [] OTHER -> ObsComplete(st, b.target)

NextEach(st, copy, v) ==
    IF copy = << >> THEN st
    ELSE NextEach(ObserverNext(st, Head(copy), v), Tail(copy), v)

ErrorEach(st, copy) ==
    IF copy = << >> THEN st
    ELSE ErrorEach(ObserverError(st, Head(copy)), Tail(copy))

CompleteEach(st, copy) ==
    IF copy = << >> THEN st
    ELSE CompleteEach(ObserverComplete(st, Head(copy)), Tail(copy))

\* EventObservable.next / Observable.next
ObsNext(st, o, v) ==
    IF IsClosed(st, o) THEN st
    ELSE NextEach(st, st.obs[o].observers, v)

\* EventObservable.error / Observable.error
ObsError(st, o) ==
    IF IsClosed(st, o) THEN st
    ELSE [ErrorEach([st EXCEPT !.obs[o].hasError = TRUE], st.obs[o].observers)
             EXCEPT !.obs[o].observers = << >>]

\* EventObservable.complete / Observable.complete
ObsComplete(st, o) ==
    IF IsClosed(st, o) THEN st
    ELSE [CompleteEach([st EXCEPT !.obs[o].isCompleted = TRUE], st.obs[o].observers)
             EXCEPT !.obs[o].observers = << >>]

\* source.take(count) on stream o: a stream completed by a setImmediate
\* callback and not subscribed to o when count <= 0 (the timer's sub is then
\* the stream to complete), else a stream fed by an observer of o
Take(st, o, count) ==
    LET made == [st EXCEPT !.obs = Append(@, NewObservable)]
        target == Len(made.obs)
    IN  IF count <= 0 THEN SetTimer(made, target, "takeEmpty", 0, 0)
        ELSE SubscribeTo(made, o, NewObserver("take", target, count, 0))

\* source.filter(predicate) on stream o, the predicate throwing on throwsOn
Filter(st, o, throwsOn) ==
    LET made == [st EXCEPT !.obs = Append(@, NewObservable)]
    IN  SubscribeTo(made, o, NewObserver("filter", Len(made.obs), 0, throwsOn))

\* source.filter / map / scan / distinct / distinctUntilChanged on stream o
\* with a callback that throws on throwsOn
WithCallback(st, o, kind, throwsOn) ==
    LET made == [st EXCEPT !.obs = Append(@, NewObservable)]
    IN  SubscribeTo(made, o, NewObserver(kind, Len(made.obs), 0, throwsOn))

\* source.debounce(delayMs) / source.throttle(intervalMs) on stream o
Timed(st, o, kind, ms) ==
    LET made == [st EXCEPT !.obs = Append(@, NewObservable)]
    IN  SubscribeTo(made, o, NewObserver(kind, Len(made.obs), ms, 0))

\* source.buffer(size) on stream o
Buffer(st, o, size) ==
    LET made == [st EXCEPT !.obs = Append(@, NewObservable)]
    IN  SubscribeTo(made, o, NewObserver("buffer", Len(made.obs), size, 0))

\* a.combineWith(b): both observers share the counter `completed`, kept in
\* cnt of the observer subscribed to a (n names that observer)
CombineWith(st, a, b) ==
    LET made == [st EXCEPT !.obs = Append(@, NewObservable)]
        first == Len(made.subs) + 1
        st1 == SubscribeTo(made, a, NewObserver("combine", Len(made.obs), first, 0))
    IN  SubscribeTo(st1, b, NewObserver("combine", Len(made.obs), first, 0))

\* o.toPromise(): the promise is the log of a new observer (empty: pending),
\* whose target is the stream it is subscribed to and whose cnt is the
\* number of calls made on the source before
ToPromiseOn(st, o) ==
    LET promise == [NewObserver("promise", o, 0, 0) EXCEPT !.cnt = Len(fed)] IN
    IF st.obs[o].isCompleted /\ st.obs[o].observers = << >>
    THEN [st EXCEPT !.subs = Append(@, [promise EXCEPT
                                           !.log = << Note("rejectEmpty", 0) >>])]
    ELSE SubscribeTo(st, o, promise)

\* One stream and nothing else
OneStream == [obs |-> << NewObservable >>, subs |-> << >>, timers |-> << >>]

\* The streams as one value, and back into the variables
Streams == [obs |-> obs, subs |-> subs, timers |-> timers]

SetStreams(st) ==
    /\ obs' = st.obs
    /\ subs' = st.subs
    /\ timers' = st.timers

\* The stream the calls of the environment are made on
Source == 1

\* source.subscribe(observer) with an observer of the caller
Subscribe(limit, oSet, throwsSet) ==
    /\ Len(subs) < limit
    /\ \E o \in oSet, x \in throwsSet :
          SetStreams(SubscribeTo(Streams, o, NewObserver("sink", 0, 0, x)))
    /\ UNCHANGED <<emitterVars, lifeVars, now, rateVars, fed>>

\* subscription.unsubscribe() of an observer of the caller
UnsubscribeObserver ==
    /\ \E o \in 1..Len(obs) : \E j \in Range(obs[o].observers) :
          /\ subs[j].kind = "sink"
          /\ obs' = [obs EXCEPT ![o].observers = Remove(@, j)]
    /\ UNCHANGED <<emitterVars, lifeVars, now, rateVars, subs, timers, fed>>

\* source.next(v)
StreamNext(limit, valueSet) ==
    /\ Len(fed) < limit
    /\ \E v \in valueSet :
          /\ SetStreams(ObsNext(Streams, Source, v))
          /\ fed' = Append(fed, Note("next", v))
    /\ UNCHANGED <<emitterVars, lifeVars, now, rateVars>>

\* source.error(e)
StreamError(limit) ==
    /\ Len(fed) < limit
    /\ SetStreams(ObsError(Streams, Source))
    /\ fed' = Append(fed, Note("error", 0))
    /\ UNCHANGED <<emitterVars, lifeVars, now, rateVars>>

\* source.complete()
StreamComplete(limit) ==
    /\ Len(fed) < limit
    /\ SetStreams(ObsComplete(Streams, Source))
    /\ fed' = Append(fed, Note("complete", 0))
    /\ UNCHANGED <<emitterVars, lifeVars, now, rateVars>>

\* source.toPromise()
ToPromise(limit) ==
    /\ Len(subs) < limit
    /\ SetStreams(ToPromiseOn(Streams, Source))
    /\ UNCHANGED <<emitterVars, lifeVars, now, rateVars, fed>>

\* A call on one of several streams: a Note that names the stream
NoteOn(o, k, v) == [k |-> k, v |-> v, t |-> now, seq |-> Len(fed), o |-> o]

\* o.next(v) on one of the streams of oSet
CallNext(limit, oSet, valueSet) ==
    /\ Len(fed) < limit
    /\ \E o \in oSet, v \in valueSet :
          /\ SetStreams(ObsNext(Streams, o, v))
          /\ fed' = Append(fed, NoteOn(o, "next", v))
    /\ UNCHANGED <<emitterVars, lifeVars, now, rateVars>>

\* o.error(e) on one of the streams of oSet
CallError(limit, oSet) ==
    /\ Len(fed) < limit
    /\ \E o \in oSet :
          /\ SetStreams(ObsError(Streams, o))
          /\ fed' = Append(fed, NoteOn(o, "error", 0))
    /\ UNCHANGED <<emitterVars, lifeVars, now, rateVars>>

\* o.complete() on one of the streams of oSet
CallComplete(limit, oSet) ==
    /\ Len(fed) < limit
    /\ \E o \in oSet :
          /\ SetStreams(ObsComplete(Streams, o))
          /\ fed' = Append(fed, NoteOn(o, "complete", 0))
    /\ UNCHANGED <<emitterVars, lifeVars, now, rateVars>>

\* The second upstream and the stream combineWith returns
Other == 2

Combined == 3

\* const c = a.combineWith(b); c.subscribe(observer), a being Source and b
\* Other, each in the state the calls made so far left it in
Combine ==
    /\ Len(obs) < Combined
    /\ LET st == CombineWith(Streams, Source, Other) IN
          SetStreams(SubscribeTo(st, Combined, NewObserver("sink", 0, 0, 0)))
    /\ fed' = Append(fed, NoteOn(Combined, "combineWith", 0))
    /\ UNCHANGED <<emitterVars, lifeVars, now, rateVars>>

\* The timer that is due first runs its callback (timers of equal due time
\* run in the order they were set); a callback may run later than it is due
FirstDue(i) ==
    /\ timers[i].due <= now
    /\ \A k \in 1..Len(timers) :
          \/ timers[k].due > timers[i].due
          \/ timers[k].due = timers[i].due /\ k >= i

TimerFire ==
    /\ \E i \in 1..Len(timers) :
          /\ FirstDue(i)
          /\ LET x == timers[i]
                 st == [Streams EXCEPT !.timers = RemoveAt(@, i)]
             IN  CASE x.kind = "observerError" ->
                        SetStreams(ObserverError(st, x.sub))
                   [] x.kind = "debounce" ->
                        SetStreams(IF st.subs[x.sub].last # 0
                                   THEN [ObsNext(st, st.subs[x.sub].target,
                                                 st.subs[x.sub].last)
                                            EXCEPT !.subs[x.sub].last = 0]
                                   ELSE st)
                   [] x.kind = "throttle" ->
                        SetStreams([ObsNext(st, st.subs[x.sub].target, x.v)
                                       EXCEPT !.subs[x.sub].cnt = now])
                   [] x.kind = "takeEmpty" ->
                        SetStreams(ObsComplete(st, x.sub))
    /\ UNCHANGED <<emitterVars, lifeVars, now, rateVars, fed>>

\* ------------------------------------------ streams of the emitter
\* A stream of the emitter is [type, isCompleted, received, obs, born]:
\* received is the events its next() took, obs the stream of the observable
\* layer it is when operators or observers were attached to it (0: none
\* were), born the number of emit() calls made before stream() was called.

\* EventObservable.next on every stream of the Set object, as the set is
\* when the callback runs; r carries the emitter's streams, the observable
\* layer and the log of the calls made on the source
RECURSIVE NextAll(_, _, _)
NextAll(r, members, event) ==
    IF members = << >> THEN r
    ELSE LET s == Head(members)
             o == r.ss[s].obs
             closed == r.ss[s].isCompleted \/ (o # 0 /\ IsClosed(r.st, o))
         IN  NextAll([ ss  |-> IF closed THEN r.ss
                               ELSE [r.ss EXCEPT ![s].received = Append(@, event)],
                       st  |-> IF o = 0 THEN r.st
                               ELSE ObsNext(r.st, o, event.payload),
                       fed |-> IF o = Source
                               THEN Append(r.fed, Note("next", event.payload))
                               ELSE r.fed ],
                     Tail(members), event)

\* The callback queued by notifyObservables runs
RunObservables ==
    /\ tasks # << >>
    /\ Head(tasks).kind = "obs"
    /\ LET r == NextAll([ss |-> streams, st |-> Streams, fed |-> fed],
                        obsSets[Head(tasks).set], Head(tasks).event)
       IN  /\ streams' = r.ss
           /\ SetStreams(r.st)
           /\ fed' = r.fed
    /\ tasks' = Tail(tasks)
    /\ UNCHANGED <<now, rateVars, lifeVars>>
    /\ UNCHANGED <<wrappers, listeners, mws, middlewares, emissions, started,
                   obsSets, observables, afterRuns, eventCounter,
                   totalEventsEmitted>>

\* ---------------------------------------------------------------- dispose
\* The streams held by the observables map, Set object by Set object
RECURSIVE MapMembers(_)
MapMembers(names) ==
    IF names = {} THEN << >>
    ELSE LET n == CHOOSE x \in names : TRUE IN
         (IF observables[n] = 0 THEN << >> ELSE obsSets[observables[n]])
             \o MapMembers(names \ {n})

\* obs.complete() on every stream of a list; r carries the emitter's
\* streams, the observable layer and the log of the calls made on the source
RECURSIVE CompleteAll(_, _)
CompleteAll(r, members) ==
    IF members = << >> THEN r
    ELSE LET s == Head(members)
             o == r.ss[s].obs
             closed == r.ss[s].isCompleted \/ (o # 0 /\ IsClosed(r.st, o))
         IN  CompleteAll([ ss  |-> [r.ss EXCEPT ![s].isCompleted = TRUE],
                           st  |-> IF o = 0 THEN r.st ELSE ObsComplete(r.st, o),
                           fed |-> IF o = Source /\ ~closed
                                   THEN Append(r.fed, Note("complete", 0))
                                   ELSE r.fed ],
                         Tail(members))

\* dispose() up to `await Promise.allSettled(...)`
Dispose(limit) ==
    /\ Len(disposals) < limit
    /\ disposals' = Append(disposals, [pc |-> "awaitMiddlewares", emits |-> 0,
                                       made |-> 0, registered |-> 0, used |-> 0])
    /\ UNCHANGED <<emitterVars, now, rateVars, streamVars, onLog,
                   maxListenersPerEvent>>

\* dispose() resumes: it completes the streams of the observables map,
\* disposes the wrappers of the listeners map, empties the middleware
\* array and both maps and resets the counters.  emits, made, registered and
\* used record how many emit(), stream(), on()/once() and use() calls had
\* been made by then.
DisposeEnd ==
    /\ \E d \in 1..Len(disposals) :
          /\ disposals[d].pc = "awaitMiddlewares"
          /\ disposals' = [disposals EXCEPT ![d] =
                 [pc |-> "done", emits |-> Len(emissions), made |-> Len(streams),
                  registered |-> Len(wrappers), used |-> Len(mws)]]
    /\ LET r == CompleteAll([ss |-> streams, st |-> Streams, fed |-> fed],
                            MapMembers(Names))
       IN  /\ streams' = r.ss
           /\ SetStreams(r.st)
           /\ fed' = r.fed
    /\ wrappers' = [lid \in 1..Len(wrappers) |->
                       IF \E n \in Names : lid \in Range(listeners[n])
                       THEN [wrappers[lid] EXCEPT !.isDisposed = TRUE]
                       ELSE wrappers[lid]]
    /\ middlewares' = << >>
    /\ listeners' = [n \in Names |-> << >>]
    /\ observables' = [n \in Names |-> 0]
    /\ eventCounter' = 0
    /\ totalEventsEmitted' = 0
    /\ UNCHANGED <<mws, emissions, started, obsSets, tasks, afterRuns, now,
                   rateVars, onLog, maxListenersPerEvent>>

\* ------------------------------------------------------- specifications
\* The steps of an emission between emit() and its result
EmissionSteps ==
    \/ Dispatch
    \/ BodySettle
    \/ Finish

NoOptions ==
    [hasPrio |-> FALSE, prio |-> 0, cond |-> 0, timeout |-> 0, maxCalls |-> 0,
     once |-> FALSE]

\* Middleware of the hook shapes runBeforeMiddlewares and
\* runErrorMiddlewares distinguish
PipelineKinds ==
    { [before |-> "tag", process |-> "none", onError |-> "ok", after |-> "none"],
      [before |-> "throw", process |-> "none", onError |-> "throw", after |-> "none"],
      [before |-> "pass", process |-> "none", onError |-> "none", after |-> "none"] }

\* The emitter after on('a', listener) and stream('a')
InitPipeline ==
    /\ \E b \in {"ok", "throw"} :
          wrappers = << NewWrapper("a", b, "none", NoOptions) >>
    /\ listeners = [n \in Names |-> IF n = "a" THEN <<1>> ELSE << >>]
    /\ mws = << >>
    /\ middlewares = << >>
    /\ emissions = << >>
    /\ started = << >>
    /\ streams = << [type |-> "a", isCompleted |-> FALSE, received |-> << >>,
                     obs |-> 0, born |-> 0] >>
    /\ obsSets = << <<1>> >>
    /\ observables = [n \in Names |-> IF n = "a" THEN 1 ELSE 0]
    /\ tasks = << >>
    /\ afterRuns = << >>
    /\ eventCounter = 0
    /\ totalEventsEmitted = 0
    /\ InitOther

\* The pipeline in front of a listener and a stream, the list of middleware
\* changing while emissions are in flight
NextPipeline ==
    \/ Use(PipelineMiddlewares, PipelineKinds)
    \/ RemoveMiddleware
    \/ Emit(PipelineEmits, {"a"}, {1}, {FALSE})
    \/ BeforeEnd
    \/ OnErrorEnd
    \/ EmissionSteps
    \/ RunObservables
    \/ RunAfter

SpecPipeline == InitPipeline /\ [][NextPipeline]_vars

\* Listeners with and without a predicate
DispatchOptions ==
    { [hasPrio |-> FALSE, prio |-> 0, cond |-> c, timeout |-> 0, maxCalls |-> 0,
       once |-> FALSE] : c \in {0, 1} }

\* Dispatch to listeners that succeed, throw or reject
Next ==
    \/ On(DispatchListeners, {"a"}, DispatchOptions, {"ok", "throw", "reject"})
    \/ Emit(DispatchEmits, {"a"}, Payloads, {FALSE, TRUE})
    \/ EmissionSteps
    \/ RunAfter

Spec == Init /\ [][Next]_vars

\* Listeners with and without a timeout
TimeoutOptions ==
    { [hasPrio |-> FALSE, prio |-> 0, cond |-> 0, timeout |-> t, maxCalls |-> 0,
       once |-> FALSE] : t \in {0, 1} }

\* Dispatch to listeners that succeed, throw or never settle
NextTimeout ==
    \/ On(TimeoutListeners, {"a"}, TimeoutOptions, {"ok", "throw", "hang"})
    \/ Emit(TimeoutEmits, {"a"}, {1}, {FALSE, TRUE})
    \/ EmissionSteps
    \/ TimeoutFire
    \/ RunAfter

SpecTimeout == Init /\ [][NextTimeout]_vars

\* Priorities below, at and above the default, and none
PriorityOptions ==
    { NoOptions } \cup
    { [hasPrio |-> TRUE, prio |-> p, cond |-> 0, timeout |-> 0, maxCalls |-> 0,
       once |-> FALSE] : p \in {-1, 0, 1, 10} }

\* One emission to listeners of several priorities that complete in any order
NextPriority ==
    \/ On(PriorityListeners, {"a"}, PriorityOptions, {"ok"})
    \/ Emit(PriorityEmits, {"a"}, {1}, {TRUE})
    \/ BodySettle
    \/ Finish

SpecPriority == Init /\ [][NextPriority]_vars

\* once() registrations under overlapping emissions
NextOnce ==
    \/ Once(OnceListeners, {"a"}, {"none", "ok", "throw"})
    \/ Emit(OnceEmits, {"a"}, {1}, {FALSE, TRUE})
    \/ EmissionSteps
    \/ RunAfter

SpecOnce == Init /\ [][NextOnce]_vars

\* Listeners with a call-count ceiling
MaxCallsOptions ==
    { [hasPrio |-> FALSE, prio |-> 0, cond |-> 0, timeout |-> 0, maxCalls |-> n,
       once |-> FALSE] : n \in {1, 2} }

\* Overlapping emissions to listeners with a ceiling, the bodies settling at
\* any later time
NextMaxCalls ==
    \/ On(MaxCallsListeners, {"a"}, MaxCallsOptions, {"ok", "throw"})
    \/ Emit(MaxCallsEmits, {"a"}, {1}, {TRUE})
    \/ BodySettle
    \/ Finish

SpecMaxCalls == Init /\ [][NextMaxCalls]_vars

\* Registrations on two names, their subscriptions closed in any order and
\* any number of times, around removeAllListeners and an emission
NextUnsub ==
    \/ On(UnsubListeners, Names, {NoOptions}, {"ok"})
    \/ Unsubscribe
    \/ RemoveAllListeners({"a"})
    \/ Emit(UnsubEmits, {"a"}, {1}, {TRUE})
    \/ BodySettle
    \/ Finish

SpecUnsub == Init /\ [][NextUnsub]_vars

\* ValidationMiddleware and LoggingMiddleware in their two hook shapes: a
\* single process hook, and before/onError hooks
ValidationKinds ==
    { [before |-> "none", process |-> "validate", onError |-> "none", after |-> "none"],
      [before |-> "validate", process |-> "none", onError |-> "none", after |-> "none"],
      [before |-> "none", process |-> "pass", onError |-> "ok", after |-> "none"],
      [before |-> "pass", process |-> "none", onError |-> "ok", after |-> "none"] }

\* The emitter after on('a', listener)
InitValidation ==
    /\ wrappers = << NewWrapper("a", "ok", "none", NoOptions) >>
    /\ listeners = [n \in Names |-> IF n = "a" THEN <<1>> ELSE << >>]
    /\ mws = << >>
    /\ middlewares = << >>
    /\ emissions = << >>
    /\ started = << >>
    /\ streams = << >>
    /\ obsSets = << >>
    /\ observables = [n \in Names |-> 0]
    /\ tasks = << >>
    /\ afterRuns = << >>
    /\ eventCounter = 0
    /\ totalEventsEmitted = 0
    /\ InitOther

\* Emissions of accepted and rejected payloads through validation and
\* logging middleware
NextValidation ==
    \/ Use(ValidationMiddlewares, ValidationKinds)
    \/ Emit(ValidationEmits, {"a"}, Payloads, {FALSE, TRUE})
    \/ BeforeEnd
    \/ OnErrorEnd
    \/ EmissionSteps
    \/ RunAfter

SpecValidation == InitValidation /\ [][NextValidation]_vars

\* Events of two keys reaching one rate limiter as time passes
NextRateLimit ==
    \/ Tick(RateMaxTime)
    \/ RateLimitBefore(RateCalls, Names)
    \/ RateLimitCleanup

SpecRateLimit == Init /\ [][NextRateLimit]_vars

\* One stream built by hand, no observer yet
InitObserved ==
    /\ InitEmitter
    /\ now = 0
    /\ InitRate
    /\ InitLife
    /\ obs = << NewObservable >>
    /\ subs = << >>
    /\ timers = << >>
    /\ fed = << >>

\* Observers, some of which throw on a value, come and go while the stream is
\* fed, fails and completes
NextObserved ==
    \/ Subscribe(ObservedObservers, {Source}, {0, 1})
    \/ UnsubscribeObserver
    \/ StreamNext(ObservedCalls, {1, 2})
    \/ StreamError(ObservedCalls)
    \/ StreamComplete(ObservedCalls)
    \/ TimerFire

SpecObserved == InitObserved /\ [][NextObserved]_vars

\* source.take(n).subscribe(observer) for some n
InitTake ==
    /\ InitEmitter
    /\ now = 0
    /\ InitRate
    /\ InitLife
    /\ fed = << >>
    /\ \E n \in 0..TakeMax :
          LET taken == Take(OneStream, Source, n)
              st == SubscribeTo(taken, Len(taken.obs), NewObserver("sink", 0, 0, 0))
          IN  /\ obs = st.obs
              /\ subs = st.subs
              /\ timers = st.timers

\* The source is fed, fails and completes
NextTake ==
    \/ StreamNext(TakeCalls, {1, 2})
    \/ StreamError(TakeCalls)
    \/ StreamComplete(TakeCalls)
    \/ TimerFire

SpecTake == InitTake /\ [][NextTake]_vars

\* emitter.stream('a').filter(predicate).take(k).subscribe(observer)
InitChain ==
    /\ wrappers = << >>
    /\ listeners = [n \in Names |-> << >>]
    /\ mws = << >>
    /\ middlewares = << >>
    /\ emissions = << >>
    /\ started = << >>
    /\ streams = << [type |-> "a", isCompleted |-> FALSE, received |-> << >>,
                     obs |-> Source, born |-> 0] >>
    /\ obsSets = << <<1>> >>
    /\ observables = [n \in Names |-> IF n = "a" THEN 1 ELSE 0]
    /\ tasks = << >>
    /\ afterRuns = << >>
    /\ eventCounter = 0
    /\ totalEventsEmitted = 0
    /\ now = 0
    /\ InitRate
    /\ InitLife
    /\ fed = << >>
    /\ \E k \in 1..ChainTake :
          LET filtered == Filter(OneStream, Source, 0)
              taken == Take(filtered, Len(filtered.obs), k)
              st == SubscribeTo(taken, Len(taken.obs), NewObserver("sink", 0, 0, 0))
          IN  /\ obs = st.obs
              /\ subs = st.subs
              /\ timers = st.timers

\* Emissions of passing and failing payloads reach the stream in the order
\* they resolve; the stream may be completed by hand
NextChain ==
    \/ Emit(ChainEmits, {"a"}, {1, 2, 3}, {TRUE})
    \/ Finish
    \/ RunObservables
    \/ StreamComplete(ChainCalls)

SpecChain == InitChain /\ [][NextChain]_vars

\* The operators that take a callback
CallbackKinds == {"filter", "map", "scan", "distinct", "distinctUntilChanged"}

\* The value on which the callback of the operator throws
ThrowValue == 2

\* source.<operator>(callback).subscribe(observer) for one of the operators
InitCallback ==
    /\ InitEmitter
    /\ now = 0
    /\ InitRate
    /\ InitLife
    /\ fed = << >>
    /\ \E kind \in CallbackKinds :
          LET made == WithCallback(OneStream, Source, kind, ThrowValue)
              st == SubscribeTo(made, Len(made.obs), NewObserver("sink", 0, 0, 0))
          IN  /\ obs = st.obs
              /\ subs = st.subs
              /\ timers = st.timers

\* Values reach the operator one after the other, timers run in between
NextCallback ==
    \/ StreamNext(CallbackCalls, {1, 2, 3})
    \/ TimerFire

SpecCallback == InitCallback /\ [][NextCallback]_vars

\* source.debounce(DebounceMs).subscribe(observer)
InitDebounce ==
    /\ InitEmitter
    /\ now = 0
    /\ InitRate
    /\ InitLife
    /\ fed = << >>
    /\ LET made == Timed(OneStream, Source, "debounce", DebounceMs)
           st == SubscribeTo(made, Len(made.obs), NewObserver("sink", 0, 0, 0))
       IN  /\ obs = st.obs
           /\ subs = st.subs
           /\ timers = st.timers

\* Values reach the source as time passes, the timer running when or after
\* it is due; the source may complete
NextDebounce ==
    \/ Tick(DebounceMaxTime)
    \/ StreamNext(DebounceCalls, {1, 2})
    \/ StreamComplete(DebounceCalls)
    \/ TimerFire

SpecDebounce == InitDebounce /\ [][NextDebounce]_vars

\* Date.now() when the stream is built: more than any interval after the
\* epoch, lastEmission being 0 at first
ThrottleStart == ThrottleMs

\* source.throttle(ThrottleMs).subscribe(observer)
InitThrottle ==
    /\ InitEmitter
    /\ now = ThrottleStart
    /\ InitRate
    /\ InitLife
    /\ fed = << >>
    /\ LET made == Timed(OneStream, Source, "throttle", ThrottleMs)
           st == SubscribeTo(made, Len(made.obs), NewObserver("sink", 0, 0, 0))
       IN  /\ obs = st.obs
           /\ subs = st.subs
           /\ timers = st.timers

\* Values reach the source as time passes, the timer running when or after
\* it is due
NextThrottle ==
    \/ Tick(ThrottleStart + ThrottleTime)
    \/ StreamNext(ThrottleCalls, {1, 2})
    \/ TimerFire

SpecThrottle == InitThrottle /\ [][NextThrottle]_vars

\* source.distinctUntilChanged(keySelector).subscribe(observer)
InitDistinct ==
    /\ InitEmitter
    /\ now = 0
    /\ InitRate
    /\ InitLife
    /\ fed = << >>
    /\ LET made == WithCallback(OneStream, Source, "distinctUntilChanged", 0)
           st == SubscribeTo(made, Len(made.obs), NewObserver("sink", 0, 0, 0))
       IN  /\ obs = st.obs
           /\ subs = st.subs
           /\ timers = st.timers

\* Values of three keys, one of them undefined, reach the source in any order
NextDistinct ==
    \/ StreamNext(DistinctCalls, {1, 2, 3})
    \/ StreamComplete(DistinctCalls)

SpecDistinct == InitDistinct /\ [][NextDistinct]_vars

\* source.buffer(size).subscribe(observer) for some size
InitBuffer ==
    /\ InitEmitter
    /\ now = 0
    /\ InitRate
    /\ InitLife
    /\ fed = << >>
    /\ \E size \in 1..BufferMax :
          LET made == Buffer(OneStream, Source, size)
              st == SubscribeTo(made, Len(made.obs), NewObserver("sink", 0, 0, 0))
          IN  /\ obs = st.obs
              /\ subs = st.subs
              /\ timers = st.timers

\* The source is fed, fails and completes
NextBuffer ==
    \/ StreamNext(BufferCalls, {1, 2})
    \/ StreamError(BufferCalls)
    \/ StreamComplete(BufferCalls)

SpecBuffer == InitBuffer /\ [][NextBuffer]_vars

\* Two streams built by hand
InitCombine ==
    /\ InitEmitter
    /\ now = 0
    /\ InitRate
    /\ InitLife
    /\ obs = << NewObservable, NewObservable >>
    /\ subs = << >>
    /\ timers = << >>
    /\ fed = << >>

\* The two streams are fed, fail and complete in any order, before and
\* after they are combined
NextCombine ==
    \/ Combine
    \/ CallNext(CombineCalls, {Source, Other}, {1, 2})
    \/ CallError(CombineCalls, {Source, Other})
    \/ CallComplete(CombineCalls, {Source, Other})

SpecCombine == InitCombine /\ [][NextCombine]_vars

\* toPromise() is called on a stream in any state, next to other observers
NextPromise ==
    \/ Subscribe(PromiseObservers, {Source}, {0})
    \/ ToPromise(PromiseObservers)
    \/ StreamNext(PromiseCalls, {1, 2})
    \/ StreamError(PromiseCalls)
    \/ StreamComplete(PromiseCalls)

SpecPromise == InitObserved /\ [][NextPromise]_vars

\* All-events streams created before, between and after the registrations
\* of listeners on two names, and emissions of both names
NextAllEvents ==
    \/ On(AllListeners, Names, {NoOptions}, {"ok"})
    \/ StreamAll(AllStreams)
    \/ Emit(AllEmits, Names, {1}, {TRUE})
    \/ BodySettle
    \/ Finish
    \/ RunObservables

SpecAllEvents == Init /\ [][NextAllEvents]_vars

\* emitter.stream('a'), no observer yet
InitShared ==
    /\ wrappers = << >>
    /\ listeners = [n \in Names |-> << >>]
    /\ mws = << >>
    /\ middlewares = << >>
    /\ emissions = << >>
    /\ started = << >>
    /\ streams = << [type |-> "a", isCompleted |-> FALSE, received |-> << >>,
                     obs |-> Source, born |-> 0] >>
    /\ obsSets = << <<1>> >>
    /\ observables = [n \in Names |-> IF n = "a" THEN 1 ELSE 0]
    /\ tasks = << >>
    /\ afterRuns = << >>
    /\ eventCounter = 0
    /\ totalEventsEmitted = 0
    /\ now = 0
    /\ InitRate
    /\ InitLife
    /\ obs = << NewObservable >>
    /\ subs = << >>
    /\ timers = << >>
    /\ fed = << >>

\* Observers come and go on the shared stream around the emissions and the
\* callbacks that deliver them
NextShared ==
    \/ Subscribe(SharedObservers, {Source}, {0})
    \/ UnsubscribeObserver
    \/ Emit(SharedEmits, {"a"}, {1, 2}, {TRUE})
    \/ Finish
    \/ RunObservables

SpecShared == InitShared /\ [][NextShared]_vars

\* A before hook that lets the event through
PassKinds ==
    { [before |-> "pass", process |-> "none", onError |-> "none", after |-> "none"] }

\* The emitter is used in every way and disposed while emissions may be in
\* flight; it is used again afterwards
NextDispose ==
    \/ On(DisposeListeners, {"a"}, {NoOptions}, {"ok"})
    \/ Use(DisposeMiddlewares, PassKinds)
    \/ Stream(DisposeStreams, {"a"})
    \/ StreamAll(DisposeStreams)
    \/ RemoveAllListeners({"a"})
    \/ Emit(DisposeEmits, {"a"}, {1}, {FALSE, TRUE})
    \/ BeforeEnd
    \/ EmissionSteps
    \/ RunObservables
    \/ RunAfter
    \/ Dispose(DisposeCalls)
    \/ DisposeEnd

SpecDispose == Init /\ [][NextDispose]_vars

\* Emissions with and without an id of the caller as time passes, around a
\* dispose()
NextIds ==
    \/ EmitWith(IdEmits, {"a"}, {1}, {TRUE}, {"", "x"}, {0, 1})
    \/ Finish
    \/ Tick(IdMaxTime)
    \/ Dispose(IdDisposes)
    \/ DisposeEnd

SpecIds == Init /\ [][NextIds]_vars

\* Middlewares with an after hook that returns or throws
AfterKinds ==
    { [before |-> "none", process |-> "none", onError |-> "none", after |-> "ok"],
      [before |-> "pass", process |-> "none", onError |-> "ok", after |-> "throw"] }

\* Emissions followed by their after hooks while middlewares come and go
NextAfter ==
    \/ On(AfterListeners, {"a"}, {NoOptions}, {"ok", "throw"})
    \/ Use(AfterMiddlewares, AfterKinds)
    \/ RemoveMiddleware
    \/ Emit(AfterEmits, {"a"}, {1}, {FALSE, TRUE})
    \/ BeforeEnd
    \/ EmissionSteps
    \/ RunAfter
    \/ AfterEnd
    \/ AfterOnErrorEnd

SpecAfter == Init /\ [][NextAfter]_vars

\* Listener bodies that leave the registry alone, register a listener, close
\* the other subscriptions of the name, or call removeAllListeners
SnapBodies == {"ok", "register", "unsubOthers", "removeAll"}

\* Emissions whose listener bodies change the registry during dispatch, and
\* subscriptions closed and names cleared while the emissions are in flight
NextSnapshot ==
    \/ On(SnapListeners, {"a"}, {NoOptions}, SnapBodies)
    \/ UnsubscribeOpen(SnapListeners)
    \/ RemoveAllListeners({"a"})
    \/ Emit(SnapEmits, {"a"}, {1}, {TRUE})
    \/ BodySettle
    \/ Finish

SpecSnapshot == Init /\ [][NextSnapshot]_vars

\* Listeners without options and listeners that may be called once
DestroyOptions ==
    { [hasPrio |-> FALSE, prio |-> 0, cond |-> 0, timeout |-> 0, maxCalls |-> n,
       once |-> FALSE] : n \in {0, 1} }

\* Subscriptions end in the three ways: unsubscribe(), the call-count
\* ceiling, dispose() of the emitter
NextDestroy ==
    \/ On(DestroyListeners, {"a"}, DestroyOptions, {"ok"})
    \/ UnsubscribeOpen(DestroyListeners)
    \/ Emit(DestroyEmits, {"a"}, {1}, {TRUE})
    \/ BodySettle
    \/ Finish
    \/ Dispose(DestroyCalls)
    \/ DisposeEnd

SpecDestroy == Init /\ [][NextDestroy]_vars

\* The emitter after on('a', listener), the listener being asynchronous, and
\* stream('a').subscribe(observer)
InitOrder ==
    /\ wrappers = << NewWrapper("a", "ok", "none", NoOptions) >>
    /\ listeners = [n \in Names |-> IF n = "a" THEN <<1>> ELSE << >>]
    /\ mws = << >>
    /\ middlewares = << >>
    /\ emissions = << >>
    /\ started = << >>
    /\ streams = << [type |-> "a", isCompleted |-> FALSE, received |-> << >>,
                     obs |-> Source, born |-> 0] >>
    /\ obsSets = << <<1>> >>
    /\ observables = [n \in Names |-> IF n = "a" THEN 1 ELSE 0]
    /\ tasks = << >>
    /\ afterRuns = << >>
    /\ eventCounter = 0
    /\ totalEventsEmitted = 0
    /\ now = 0
    /\ InitRate
    /\ InitLife
    /\ fed = << >>
    /\ LET st == SubscribeTo(OneStream, Source, NewObserver("sink", 0, 0, 0))
       IN  /\ obs = st.obs
           /\ subs = st.subs
           /\ timers = st.timers

\* Emissions that overlap: the listener body of each settles at any time
NextOrder ==
    \/ Emit(OrderEmits, {"a"}, {1, 2}, {TRUE})
    \/ BodySettle
    \/ Finish
    \/ RunObservables

SpecOrder == InitOrder /\ [][NextOrder]_vars

\* on(name, listener, {once: true}) under overlapping emissions
NextOnceOption ==
    \/ On(OnceOptionListeners, {"a"}, {OnceOptions}, {"ok", "throw"})
    \/ Emit(OnceOptionEmits, {"a"}, {1}, {TRUE})
    \/ BodySettle
    \/ Finish

SpecOnceOption == Init /\ [][NextOnceOption]_vars

\* Subscriptions closed by other tasks and by listener bodies while
\* emissions are suspended in a before hook or in their dispatch
NextClosed ==
    \/ On(ClosedListeners, {"a"}, {NoOptions}, {"ok", "unsubOthers"})
    \/ Use(ClosedMiddlewares, PassKinds)
    \/ UnsubscribeOpen(ClosedListeners)
    \/ Emit(ClosedEmits, {"a"}, {1}, {FALSE, TRUE})
    \/ BeforeEnd
    \/ EmissionSteps
    \/ RunAfter

SpecClosed == Init /\ [][NextClosed]_vars

\* Streams of one name are obtained before, between and after emissions of
\* that name, also between an emission's end and the callback it queued
NextBorn ==
    \/ On(BornListeners, {"a"}, {NoOptions}, {"ok"})
    \/ Stream(BornStreams, {"a"})
    \/ Emit(BornEmits, {"a"}, {1}, {TRUE})
    \/ BodySettle
    \/ Finish
    \/ RunObservables

SpecBorn == Init /\ [][NextBorn]_vars

\* Listeners and streams of two names and a middleware; the listeners of one
\* name are removed all at once, events of both names are emitted and the
\* emitter is disposed in the end
NextKeep ==
    \/ On(KeepListeners, Names, {NoOptions}, {"ok"})
    \/ Use(KeepMiddlewares, PassKinds)
    \/ Stream(KeepStreams, Names)
    \/ RemoveAllListeners({"a"})
    \/ Emit(KeepEmits, Names, {1}, {TRUE})
    \/ BodySettle
    \/ Finish
    \/ RunObservables
    \/ Dispose(KeepDisposes)
    \/ DisposeEnd

SpecKeep == Init /\ [][NextKeep]_vars

\* An emitter built with some ceiling
InitCeiling ==
    /\ InitEmitter
    /\ now = 0
    /\ InitRate
    /\ InitStreams
    /\ disposals = << >>
    /\ onLog = << >>
    /\ maxListenersPerEvent \in 0..CeilingMax

\* on() with valid and invalid arguments, subscriptions closed in between
NextCeiling ==
    \/ OnChecked(CeilingCalls, {"a", ""}, {"ok", "notFunction"})
    \/ Unsubscribe

SpecCeiling == InitCeiling /\ [][NextCeiling]_vars

\* Middlewares whose before hook passes or throws
MetricKinds ==
    { [before |-> "pass", process |-> "none", onError |-> "none", after |-> "none"],
      [before |-> "throw", process |-> "none", onError |-> "ok", after |-> "none"] }

\* Emissions the pipeline accepts or rejects, around a dispose()
NextMetrics ==
    \/ On(MetricListeners, {"a"}, {NoOptions}, {"ok", "throw"})
    \/ Use(MetricMiddlewares, MetricKinds)
    \/ Emit(MetricEmits, {"a"}, {1}, {FALSE, TRUE})
    \/ BeforeEnd
    \/ OnErrorEnd
    \/ EmissionSteps
    \/ RunAfter
    \/ Dispose(MetricDisposes)
    \/ DisposeEnd

SpecMetrics == Init /\ [][NextMetrics]_vars

\* ---------------------------------------------------------------- claims
Done(e) == emissions[e].pc = "done"

\* The emissions whose pipeline was aborted by a throwing before hook
Aborted(e) == emissions[e].thrown # 0

StartedOf(e) == SelectSeq(started, LAMBDA x : x.em = e)

ReceivedBySomeStream(event) ==
    \E s \in 1..Len(streams) : \E i \in 1..Len(streams[s].received) :
        streams[s].received[i].id = event.id

QueuedFor(event) ==
    \E t \in 1..Len(tasks) : tasks[t].event.id = event.id

\* The middleware that were in the list from the start of emission e until now
RegisteredThroughout(e) == Range(emissions[e].atStart) \cap Range(middlewares)

\* C3: when a before hook throws, no listener is invoked and no stream
\* receives the event, the onError hook of every registered middleware is
\* invoked, and emit resolves with listenersNotified = 0, success = false and
\* the error recorded.
C3_PipelineAbort ==
    \A e \in 1..Len(emissions) :
        Aborted(e) =>
            /\ StartedOf(e) = << >>
            /\ ~ReceivedBySomeStream(emissions[e].event)
            /\ ~QueuedFor(emissions[e].event)
            /\ Done(e) =>
                  /\ emissions[e].result.listenersNotified = 0
                  /\ emissions[e].result.success = FALSE
                  /\ emissions[e].result.errors =
                        << [listenerId |-> MiddlewareId, error |-> "pipeline"] >>
                  /\ \A m \in RegisteredThroughout(e) :
                        mws[m].onError # "none" => m \in Range(emissions[e].errHooks)

\* The event a before hook returns, as recorded when the hook settled
HookOutput(h) == BeforeResult(h.mw, h.input)

\* C4: the before hooks of one emission run one after the other in the order
\* of registration, each receives the event the previous one returned, and
\* the listeners receive the event the last one returned.
C4_BeforeOrder ==
    \A e \in 1..Len(emissions) :
        LET hs == emissions[e].hooks IN
        /\ \A k \in 1..Len(hs) :
              /\ k < Len(hs) => hs[k].settled /\ hs[k].mw < hs[k + 1].mw
              /\ hs[k].input = IF k = 1 THEN emissions[e].event
                               ELSE HookOutput(hs[k - 1])
        /\ \A i \in 1..Len(started) :
              started[i].em = e =>
                  /\ \A k \in 1..Len(hs) : hs[k].settled
                  /\ started[i].event = IF hs = << >> THEN emissions[e].event
                                        ELSE HookOutput(hs[Len(hs)])

\* An emission that went through two before hooks, the first of which
\* replaced the event, and reached a listener
C4_Witness ==
    \E e \in 1..Len(emissions) :
        /\ Len(emissions[e].hooks) >= 2
        /\ mws[emissions[e].hooks[1].mw].before = "tag"
        /\ \E i \in 1..Len(started) :
              started[i].em = e /\ Len(started[i].event.trace) >= 1

\* C5: a resolved EmitResult has success = true exactly when its errors are
\* empty, and the errors of an aborted pipeline are not empty.
C5_SuccessIffNoErrors ==
    \A e \in 1..Len(emissions) :
        Done(e) =>
            /\ emissions[e].result.success = (emissions[e].result.errors = << >>)
            /\ Aborted(e) => emissions[e].result.errors # << >>

\* A dispatch that resolved with the error of a failed listener
C5_Witness ==
    \E e \in 1..Len(emissions) :
        /\ Done(e) /\ ~Aborted(e)
        /\ emissions[e].hooks # << >>
        /\ emissions[e].result.errors # << >>
        /\ ~emissions[e].result.success

\* ------------------------------------------------- claims on the dispatch
Dispatched(e) == emissions[e].pc \in {"awaitListeners", "done"}

Settled(e) == \A i \in 1..Len(emissions[e].ex) : emissions[e].ex[i].st # "running"

\* The predicate of listener lid rejects the event of emission e
SkippedByCondition(e, lid) ==
    /\ wrappers[lid].options.cond # 0
    /\ ~Condition(wrappers[lid].options, emissions[e].processed)

ErrorsOf(e, lid) ==
    SelectSeq(emissions[e].result.errors, LAMBDA x : x.listenerId = lid)

\* C1: a listener that throws or rejects does not keep any other listener of
\* the event from being invoked and from completing; emit resolves and the
\* failure is in the result's errors.
C1_FaultIsolation ==
    \A e \in 1..Len(emissions) :
        Dispatched(e) =>
            LET em == emissions[e] IN
            /\ Len(em.ex) = Len(em.sorted)
            /\ \A i \in 1..Len(em.ex) :
                  LET lid == em.sorted[i] IN
                  /\ em.ex[i].lid = lid
                  /\ em.ex[i].ran = ~SkippedByCondition(e, lid)
                  /\ (em.ex[i].ran /\ wrappers[lid].body = "ok" /\ Done(e))
                        => em.ex[i].st = "fulfilled"
                  /\ (wrappers[lid].body \in {"throw", "reject"}
                         /\ em.ex[i].ran /\ Done(e))
                        => Len(ErrorsOf(e, lid)) = 1
            /\ (em.pc = "awaitListeners" /\ Settled(e)) => ENABLED Finish

\* A resolved emission in which a listener threw and a listener that starts
\* after it ran to completion
C1_Witness ==
    \E e \in 1..Len(emissions) :
        /\ Done(e)
        /\ \E i, j \in 1..Len(emissions[e].ex) :
              /\ i < j
              /\ wrappers[emissions[e].ex[i].lid].body = "throw"
              /\ emissions[e].ex[i].st = "rejected"
              /\ emissions[e].ex[j].ran
              /\ emissions[e].ex[j].st = "fulfilled"

\* C6: listenersNotified is the number of listeners whose body ran to
\* completion without throwing or timing out, and every other listener of
\* the event contributes exactly one EmitError with its id.
C6_NotifiedCount ==
    \A e \in 1..Len(emissions) :
        (Done(e) /\ ~Aborted(e)) =>
            LET em == emissions[e]
                completed == {i \in 1..Len(em.ex) :
                                 em.ex[i].ran /\ em.ex[i].st = "fulfilled"}
            IN  /\ em.result.listenersNotified = Cardinality(completed)
                /\ \A i \in 1..Len(em.ex) :
                      i \notin completed => Len(ErrorsOf(e, em.ex[i].lid)) = 1

\* C7: a listener whose predicate returns false is skipped silently: body
\* not invoked, not counted in listenersNotified, no error, call counter
\* not incremented.
C7_PredicateSkip ==
    \A e \in 1..Len(emissions) :
        Dispatched(e) =>
            LET em == emissions[e]
                skipped == {i \in 1..Len(em.ex) : SkippedByCondition(e, em.ex[i].lid)}
            IN  /\ \A i \in skipped :
                      /\ ~em.ex[i].ran
                      /\ wrappers[em.ex[i].lid].callCount = 0
                      /\ Done(e) => ErrorsOf(e, em.ex[i].lid) = << >>
                /\ Done(e) =>
                      em.result.listenersNotified <= Len(em.ex) - Cardinality(skipped)

\* C10: a listener whose timeout elapses before its body settles is one
\* timeout error of the emission and is not counted; the emission resolves
\* without waiting for the body and the other listeners' outcomes stand.
C10_Timeout ==
    \A e \in 1..Len(emissions) :
        Dispatched(e) =>
            LET em == emissions[e]
                timedOut == {i \in 1..Len(em.ex) : em.ex[i].err = "timeout"}
            IN  /\ \A i \in timedOut : wrappers[em.ex[i].lid].options.timeout # 0
                /\ (em.pc = "awaitListeners" /\ Settled(e)) => ENABLED Finish
                /\ Done(e) =>
                      /\ \A i \in timedOut :
                            ErrorsOf(e, em.ex[i].lid) =
                               << [listenerId |-> em.ex[i].lid, error |-> "timeout"] >>
                      /\ em.result.listenersNotified =
                            Cardinality({i \in 1..Len(em.ex) :
                                            i \notin timedOut /\ em.ex[i].st = "fulfilled"})
                      /\ \A j \in 1..Len(em.ex) :
                            (j \notin timedOut /\ em.ex[j].ran) =>
                                em.ex[j].st = IF wrappers[em.ex[j].lid].body = "ok"
                                              THEN "fulfilled" ELSE "rejected"

\* A resolved emission with a timed-out listener whose body never settled
\* next to a listener that completed
C10_Witness ==
    \E e \in 1..Len(emissions) :
        /\ Done(e)
        /\ \E i, j \in 1..Len(emissions[e].ex) :
              /\ emissions[e].ex[i].err = "timeout"
              /\ ~emissions[e].ex[i].bodyDone
              /\ wrappers[emissions[e].ex[i].lid].body = "hang"
              /\ emissions[e].ex[j].st = "fulfilled"
              /\ emissions[e].ex[j].ran
              /\ emissions[e].result.listenersNotified = 1

\* --------------------------------------------------- claims on priorities
\* C2: one emit starts the listeners in descending order of the priority
\* given at registration, 0 and negative values included, and listeners of
\* equal priority in registration order.
C2_PriorityOrder ==
    \A i, j \in 1..Len(started) :
        LET x == wrappers[started[i].lid]
            y == wrappers[started[j].lid]
        IN  (i < j /\ started[i].em = started[j].em
                /\ x.options.hasPrio /\ y.options.hasPrio) =>
                /\ x.options.prio >= y.options.prio
                /\ x.options.prio = y.options.prio => started[i].lid < started[j].lid

\* -------------------------------------------------------- claims on once
OnceWrappers == {lid \in 1..Len(wrappers) : wrappers[lid].body = "once"}

\* C8: the callback passed to once() is invoked at most one time over any
\* interleaving of emissions.
C8_OnceAtMostOnce ==
    \A lid \in OnceWrappers : wrappers[lid].bodyCalls <= 1

\* Two emissions that overlapped, both dispatched, and a once() callback
\* that ran for the first of them only
C8_Witness ==
    \E lid \in OnceWrappers :
        /\ wrappers[lid].user = "ok"
        /\ wrappers[lid].bodyCalls = 1
        /\ Len(emissions) = 2
        /\ Done(1) /\ Done(2)
        /\ emissions[1].sorted = << >>
        /\ lid \in Range(emissions[2].sorted)

\* C9: the future of once(name, listener?) resolves with the first event of
\* name dispatched after the call, for any listener callback, and the
\* registration is disposed after that invocation.
C9_OnceResolves ==
    \A lid \in OnceWrappers :
        \A e \in 1..Len(emissions) :
            (Dispatched(e) /\ lid \in Range(emissions[e].sorted)) =>
                /\ wrappers[lid].resolved = <<emissions[e].processed>>
                /\ lid \notin Range(listeners[wrappers[lid].type])


\* ------------------------------------------------ claims on the call ceiling
\* The calls of execute() on listener lid so far, over all emissions
ExecuteCalls(lid) ==
    UNION { { <<e, i>> : i \in {k \in 1..Len(emissions[e].ex) :
                                   emissions[e].ex[k].lid = lid} } :
            e \in 1..Len(emissions) }

BodyRuns(lid) == {c \in ExecuteCalls(lid) : emissions[c[1]].ex[c[2]].ran}

Min(a, b) == IF a < b THEN a ELSE b

\* C11: a listener registered with maxCalls = n has its body invoked at most
\* n times over any interleaving of emissions, and each of the first n calls,
\* the n-th included, invokes the body.
C11_MaxCalls ==
    \A lid \in 1..Len(wrappers) :
        LET n == wrappers[lid].options.maxCalls IN
        n >= 1 =>
            /\ wrappers[lid].bodyCalls <= n
            /\ wrappers[lid].bodyCalls = Cardinality(BodyRuns(lid))
            /\ Cardinality(BodyRuns(lid)) = Min(n, Cardinality(ExecuteCalls(lid)))

\* A listener with maxCalls = 2 whose second call ran while the body of the
\* first was still running, and whose third call was turned away
C11_Witness ==
    \E lid \in 1..Len(wrappers) :
        /\ wrappers[lid].options.maxCalls = 2
        /\ wrappers[lid].bodyCalls = 2
        /\ Cardinality(ExecuteCalls(lid)) = 3
        /\ \E c \in BodyRuns(lid) : emissions[c[1]].ex[c[2]].st = "running"

\* --------------------------------------------- claims on the subscription
\* listenerCount(eventType)
ListenerCount(n) == Len(listeners[n])

\* C12: unsubscribe() on a subscription of on() that is already closed leaves
\* the registry as it is: the listeners of every name, listenerCount of every
\* name and the state of every wrapper.
C12_UnsubscribeTwice ==
    [][ \A lid \in 1..Len(wrappers) :
           (wrappers[lid].closed /\ UnsubscribeOf(lid)) =>
               /\ listeners' = listeners
               /\ \A n \in Names : ListenerCount(n)' = ListenerCount(n)
               /\ \A l \in 1..Len(wrappers) :
                      /\ wrappers'[l].isDisposed = wrappers[l].isDisposed
                      /\ wrappers'[l].closed = wrappers[l].closed ]_vars

\* unsubscribe() was called again on a closed subscription while another
\* listener registered after the first call is on the same name
C12_Witness ==
    \E lid \in 1..Len(wrappers) :
        /\ wrappers[lid].again
        /\ \E l \in Range(listeners[wrappers[lid].type]) : l > lid

\* ------------------------------------------------ claims on interception
\* Instance m validates: it exposes the validator in its process or in its
\* before hook
Validates(m) == mws[m].before = "validate" \/ mws[m].process = "validate"

\* C13: with a validating middleware registered when the emission starts,
\* whichever hook it exposes, an emission without skipMiddleware whose
\* payload the validator rejects notifies no listener and reports the error.
C13_ValidationIntercepts ==
    \A e \in 1..Len(emissions) :
        LET em == emissions[e] IN
        ( /\ Done(e)
          /\ ~em.skip
          /\ ~Validate(em.event)
          /\ \E m \in Range(em.atStart) : Validates(m) )
        => /\ StartedOf(e) = << >>
           /\ ~em.result.success
           /\ em.result.errors # << >>

\* ------------------------------------------------- claims on rate limiting
\* The events of key k that passed the rate limiter at a time in [s, s + len)
PassedIn(k, s, len) ==
    {i \in 1..Len(rateLog) :
        /\ rateLog[i].key = k
        /\ rateLog[i].passed
        /\ s <= rateLog[i].t
        /\ rateLog[i].t < s + len}

\* C14: for every key and every interval of length windowMs, at most
\* maxEvents events of the key pass the rate limiter.
C14_RateLimit ==
    \A k \in Names : \A s \in 0..RateMaxTime :
        Cardinality(PassedIn(k, s, RateWindowMs)) <= RateMaxEvents

\* ---------------------------------------------------- claims on the streams
Sinks == {j \in 1..Len(subs) : subs[j].kind = "sink"}

\* The positions of the terminal notifications in the log of observer j
Terminals(j) ==
    {i \in 1..Len(subs[j].log) : subs[j].log[i].k \in {"error", "complete"}}

\* The values observer j received, in order
Values(j) ==
    LET nexts == SelectSeq(subs[j].log, LAMBDA x : x.k = "next")
    IN  [i \in 1..Len(nexts) |-> nexts[i].v]

\* C15: each observer receives at most one terminal notification and no
\* next after it, and a stream that has completed or failed has no observer.
C15_TerminalOnce ==
    /\ \A j \in Sinks :
          /\ Cardinality(Terminals(j)) <= 1
          /\ \A i \in Terminals(j) : i = Len(subs[j].log)
    /\ \A o \in 1..Len(obs) :
          IsClosed(Streams, o) => obs[o].observers = << >>

\* The position of the first complete or error call on the source
\* (Len(fed) + 1: none yet)
RECURSIVE FirstTerminalFrom(_)
FirstTerminalFrom(i) ==
    IF i > Len(fed) \/ fed[i].k # "next" THEN i ELSE FirstTerminalFrom(i + 1)

\* The values the source was given before it completed or failed
UpstreamValues ==
    [i \in 1..(FirstTerminalFrom(1) - 1) |-> fed[i].v]

SourceCompleted ==
    FirstTerminalFrom(1) <= Len(fed) /\ fed[FirstTerminalFrom(1)].k = "complete"

Completes(j) == {i \in Terminals(j) : subs[j].log[i].k = "complete"}

\* The count given to take(): that of take's observer, 0 when take returned
\* the empty stream
TakeCount ==
    IF \E j \in 1..Len(subs) : subs[j].kind = "take"
    THEN subs[CHOOSE j \in 1..Len(subs) : subs[j].kind = "take"].n
    ELSE 0

\* C16: the observer of take(n) has received the first min(n, number of
\* upstream values before completion) upstream values in order; complete
\* comes at most once, after the values, and has come once n values were
\* forwarded or the upstream completed; take(0) forwards no value and
\* completes once its callback has run.
C16_Take ==
    \A j \in Sinks :
        LET n == TakeCount
            m == Min(n, Len(UpstreamValues))
        IN  /\ Values(j) = SubSeq(UpstreamValues, 1, m)
            /\ Cardinality(Completes(j)) <= 1
            /\ \A i \in Terminals(j) : i = Len(subs[j].log)
            /\ n >= 1 =>
                  (Cardinality(Completes(j)) = 1
                      <=> (Len(UpstreamValues) >= n \/ SourceCompleted))
            /\ n = 0 =>
                  (Cardinality(Completes(j)) = 1 <=> timers = << >>)

\* take(2) was given three values: its observer has the first two and complete
C16_Witness ==
    \E j \in Sinks :
        /\ TakeCount = 2
        /\ Len(UpstreamValues) = 3
        /\ Len(Values(j)) = 2
        /\ Cardinality(Completes(j)) = 1

\* The upstream values that satisfy the predicate of filter, in order
PassingValues == SelectSeq(UpstreamValues, Predicate)

\* The events the emitter's stream took that satisfy the predicate
PassingEvents == SelectSeq(streams[1].received, LAMBDA ev : Predicate(ev.payload))

\* C17: the observer of stream.filter(pred).take(k) has received the first
\* min(k, number of passing values) upstream values that satisfy pred, in
\* order, then complete at most once, which has come once k values were
\* forwarded or the upstream completed; with k = 1 and a passing event
\* emitted after the subscription, the observer has exactly that event and
\* one complete.
C17_FilterTake ==
    \A j \in Sinks :
        LET k == TakeCount
            m == Min(k, Len(PassingValues))
        IN  /\ Values(j) = SubSeq(PassingValues, 1, m)
            /\ Cardinality(Completes(j)) <= 1
            /\ \A i \in Terminals(j) : i = Len(subs[j].log)
            /\ Cardinality(Completes(j)) = 1
                   <=> (Len(PassingValues) >= k \/ SourceCompleted)
            /\ (k = 1 /\ PassingEvents # << >>) =>
                   /\ Values(j) = << PassingEvents[1].payload >>
                   /\ Cardinality(Completes(j)) = 1

\* filter(pred).take(1) was given a failing value and then a passing one:
\* its observer has the passing value and complete
C17_Witness ==
    \E j \in Sinks :
        /\ TakeCount = 1
        /\ Len(UpstreamValues) = 2
        /\ ~Predicate(UpstreamValues[1])
        /\ Predicate(UpstreamValues[2])
        /\ Values(j) = << UpstreamValues[2] >>
        /\ Cardinality(Completes(j)) = 1

\* The callback of the operator has thrown on a value
Thrown == \E i \in 1..Len(UpstreamValues) : UpstreamValues[i] = ThrowValue

\* The stream the operator returned
Downstream == 2

\* C18: the value on which an operator's callback throws is not forwarded,
\* no value is forwarded after it, and the downstream stream is in its error
\* state before the next upstream value is handled.
C18_CallbackThrows ==
    [][ /\ Thrown' => \A j \in Sinks : Values(j)' = Values(j)
        /\ (Thrown /\ fed' # fed) => obs[Downstream].hasError ]_vars

\* ----------------------------------------------- claims on timed operators
\* The positions in the log of observer j of the values forwarded while the
\* p-th call on the source was the latest
ForwardedAfter(j, p) ==
    {i \in 1..Len(subs[j].log) : subs[j].log[i].k = "next" /\ subs[j].log[i].seq = p}

\* C19: a value reaches the observer of debounce(ms) only as the value of
\* the most recent upstream next, either ms or more after that next or when
\* the upstream completes right after it; each upstream value is forwarded
\* at most once; a value not yet forwarded has its timer pending; after the
\* upstream's complete the pending value was forwarded once and the
\* downstream completed after it.
C19_Debounce ==
    \A j \in Sinks :
        LET log == subs[j].log IN
        /\ \A i \in 1..Len(log) :
              log[i].k = "next" =>
                 LET p == log[i].seq IN
                 /\ p >= 1
                 /\ fed[p].k = "next"
                 /\ fed[p].v = log[i].v
                 /\ \/ log[i].t >= fed[p].t + DebounceMs
                    \/ /\ Len(fed) > p
                       /\ fed[p + 1].k = "complete"
                       /\ i < Len(log)
                       /\ log[i + 1].k = "complete"
        /\ \A p \in 1..Len(fed) : Cardinality(ForwardedAfter(j, p)) <= 1
        /\ (Len(UpstreamValues) = Len(fed) /\ fed # << >>
               /\ ForwardedAfter(j, Len(fed)) = {})
              => \E x \in Range(timers) :
                     x.kind = "debounce" /\ x.due = fed[Len(fed)].t + DebounceMs
        /\ (SourceCompleted /\ UpstreamValues # << >>) =>
              /\ Cardinality(ForwardedAfter(j, Len(UpstreamValues))) = 1
              /\ Cardinality(Completes(j)) = 1
              /\ log[Len(log)].k = "complete"
        /\ Cardinality(Completes(j)) <= 1

\* Two values reached debounce at different times less than ms apart: the
\* first was never forwarded, the second was, ms or more after it arrived
C19_Witness ==
    \E j \in Sinks : \E i \in 1..Len(subs[j].log) :
        LET x == subs[j].log[i] IN
        /\ x.k = "next"
        /\ x.seq >= 2
        /\ fed[x.seq - 1].k = "next"
        /\ fed[x.seq].t > fed[x.seq - 1].t
        /\ fed[x.seq].t < fed[x.seq - 1].t + DebounceMs
        /\ fed[x.seq].v # fed[x.seq - 1].v
        /\ x.t >= fed[x.seq].t + DebounceMs
        /\ ForwardedAfter(j, x.seq - 1) = {}

\* The time of the value forwarded before position i of a log (none: a time
\* more than the interval before the stream was built)
ForwardedBefore(log, i) ==
    IF i = 1 THEN ThrottleStart - ThrottleMs ELSE log[i - 1].t

\* C20: every value the observer of throttle(ms) receives is either the
\* value of the upstream next being handled, ms or more after the value
\* forwarded before it (immediate), or the latest value the upstream was
\* given (trailing); at most one trailing emission is scheduled.
C20_Throttle ==
    /\ \A j \in Sinks :
          LET log == subs[j].log IN
          \A i \in 1..Len(log) :
              LET x == log[i] IN
              \/ /\ Len(fed) > x.seq
                 /\ fed[x.seq + 1].t = x.t
                 /\ fed[x.seq + 1].v = x.v
                 /\ x.t >= ForwardedBefore(log, i) + ThrottleMs
              \/ /\ x.seq >= 1
                 /\ fed[x.seq].v = x.v
    /\ Cardinality({i \in 1..Len(timers) : timers[i].kind = "throttle"}) <= 1

\* ------------------------------------------------- claims on other operators
\* The p-th upstream value is the first one or its key is not the key of the
\* value before it
KeyChanged(p) ==
    p = 1 \/ KeySelector(fed[p].v) # KeySelector(fed[p - 1].v)

\* C21: distinctUntilChanged(keyFn) forwards an upstream value, once and
\* unchanged, if and only if it is the first value of the stream or its key
\* differs from the key of the value before it, whatever keys keyFn returns.
C21_DistinctUntilChanged ==
    \A j \in Sinks : \A p \in 1..Len(UpstreamValues) :
        /\ Cardinality(ForwardedAfter(j, p - 1)) = IF KeyChanged(p) THEN 1 ELSE 0
        /\ \A i \in ForwardedAfter(j, p - 1) : subs[j].log[i].v = fed[p].v

\* The position in fed of the first complete or error call on stream o
\* (0: the stream is active)
TerminalOf(o) ==
    LET ps == {p \in 1..Len(fed) : fed[p].o = o /\ fed[p].k \in {"complete", "error"}}
    IN  IF ps = {} THEN 0 ELSE CHOOSE p \in ps : \A q \in ps : p <= q

HasCompleted(o) == TerminalOf(o) # 0 /\ fed[TerminalOf(o)].k = "complete"

HasFailed(o) == TerminalOf(o) # 0 /\ fed[TerminalOf(o)].k = "error"

\* The position in fed of the call of combineWith (0: not called yet)
CombinedAt ==
    LET ps == {p \in 1..Len(fed) : fed[p].k = "combineWith"}
    IN  IF ps = {} THEN 0 ELSE CHOOSE p \in ps : TRUE

\* Observer j had received complete or error before the p-th call was made
TerminalBefore(j, p) ==
    \E i \in Terminals(j) : subs[j].log[i].seq < p - 1

\* C23: the observer of a.combineWith(b) receives every value given to a or b
\* while that upstream is active and the downstream has not terminated;
\* complete comes with the call that makes both upstreams completed and
\* never while one of them is active; the error of an upstream comes with
\* that call, and nothing follows a terminal notification.
C23_CombineWith ==
    \A j \in Sinks :
        LET log == subs[j].log IN
        /\ \A p \in (CombinedAt + 1)..Len(fed) :
              LET live == TerminalOf(fed[p].o) = 0 \/ p <= TerminalOf(fed[p].o) IN
              /\ (fed[p].k = "next" /\ live /\ ~TerminalBefore(j, p)) =>
                     /\ Cardinality(ForwardedAfter(j, p - 1)) = 1
                     /\ \A i \in ForwardedAfter(j, p - 1) : log[i].v = fed[p].v
              /\ (fed[p].k = "error" /\ live /\ ~TerminalBefore(j, p)) =>
                     \E i \in Terminals(j) : log[i].k = "error" /\ log[i].seq = p - 1
        /\ \A i \in 1..Len(log) :
              log[i].k = "next" =>
                  /\ fed[log[i].seq + 1].k = "next"
                  /\ Cardinality(ForwardedAfter(j, log[i].seq)) = 1
        /\ Cardinality(Terminals(j)) <= 1
        /\ \A i \in Terminals(j) : i = Len(log)
        /\ Completes(j) # {} => HasCompleted(Source) /\ HasCompleted(Other)
        /\ (HasCompleted(Source) /\ HasCompleted(Other)) => Completes(j) # {}

\* The promises toPromise() returned
Promises == {j \in 1..Len(subs) : subs[j].kind = "promise"}

\* The state of promise j
Settlement(j) == IF subs[j].log = << >> THEN "pending" ELSE subs[j].log[1].k

\* The state the stream's history asks of promise j: that of the terminal
\* state the stream was in when toPromise() was called, else that of the
\* first call made on the stream after it
Expected(j) ==
    LET c == subs[j].cnt
        term == FirstTerminalFrom(1)
    IN  IF term <= c
        THEN IF fed[term].k = "error" THEN "rejectError" ELSE "rejectEmpty"
        ELSE IF Len(fed) = c THEN "pending"
        ELSE CASE fed[c + 1].k = "next" -> "resolve"
               [] fed[c + 1].k = "error" -> "rejectError"
               [] fed[c + 1].k = "complete" -> "rejectEmpty"

\* C24: whatever the state of the stream when toPromise() is called, the
\* promise resolves with the first value delivered after the call, the
\* observer being unsubscribed, rejects with the stream's error if the stream
\* has failed or fails first, and rejects with the completed-without-emitting
\* error if the stream has completed or completes first.
C24_ToPromise ==
    \A j \in Promises :
        /\ Settlement(j) = Expected(j)
        /\ Settlement(j) = "resolve" =>
               /\ subs[j].log[1].v = fed[subs[j].cnt + 1].v
               /\ j \notin Range(obs[Source].observers)

\* ---------------------------------------------- claims on emitter streams
\* The events stream s took have the event of emission e among them
Received(s, e) ==
    \E i \in 1..Len(streams[s].received) :
        streams[s].received[i].id = emissions[e].processed.id

\* C25: a stream obtained by stream() without a name has taken the event of
\* every emission, of any name, that was started after the stream was
\* created and has resolved, once the callbacks that emission queued have
\* run; which names had listeners when the stream was created does not matter.
C25_AllEvents ==
    \A s \in 1..Len(streams) : \A e \in 1..Len(emissions) :
        ( /\ streams[s].type = "*"
          /\ e > streams[s].born
          /\ Done(e)
          /\ ~QueuedFor(emissions[e].processed) )
        => Received(s, e)

\* The deliveries of the event of emission e to observer j, for an emission
\* whose payload no other emission has
Deliveries(j, e) ==
    {i \in 1..Len(subs[j].log) :
        subs[j].log[i].k = "next" /\ subs[j].log[i].v = emissions[e].event.payload}

UniquePayload(e) ==
    \A f \in 1..Len(emissions) :
        f # e => emissions[f].event.payload # emissions[e].event.payload

\* C26: an emission that has resolved and whose callback has run was
\* delivered exactly once to each observer of the name's stream that was
\* subscribed when emit was called and still when it resolved, whether or
\* not the observer unsubscribed afterwards; nothing is delivered before emit
\* resolves; an observer that had unsubscribed before emit was called
\* receives nothing of that emission.
C26_SharedStream ==
    \A e \in 1..Len(emissions) : \A j \in Sinks :
        UniquePayload(e) =>
            /\ Cardinality(Deliveries(j, e)) <= 1
            /\ (~Done(e) \/ QueuedFor(emissions[e].event)) => Deliveries(j, e) = {}
            /\ ( /\ Done(e)
                 /\ ~QueuedFor(emissions[e].event)
                 /\ j \in emissions[e].subsAtCall \cap emissions[e].subsAtDone )
               => Cardinality(Deliveries(j, e)) = 1
            /\ ( /\ j \notin emissions[e].subsAtCall
                 /\ \E f \in 1..(e - 1) : j \in emissions[f].subsAtCall )
               => Deliveries(j, e) = {}

\* ---------------------------------------------------- claims on dispose
Disposed(d) == disposals[d].pc = "done"

\* C27: after a dispose() call has resolved, every stream obtained from
\* stream() before is completed; an emission started afterwards starts no
\* listener and calls no before hook of a middleware registered before; and
\* totalEvents is 0 as long as no emit call has been made since.
C27_Dispose ==
    \A d \in 1..Len(disposals) :
        Disposed(d) =>
            /\ \A s \in 1..disposals[d].made : streams[s].isCompleted
            /\ \A e \in (disposals[d].emits + 1)..Len(emissions) :
                  /\ \A i \in 1..Len(started) :
                        started[i].em = e => started[i].lid > disposals[d].registered
                  /\ \A k \in 1..Len(emissions[e].hooks) :
                        emissions[e].hooks[k].mw > disposals[d].used
            /\ Len(emissions) = disposals[d].emits => totalEventsEmitted = 0

\* C28: no two emissions of the emitter carry the same event id, with or
\* without an id given by the caller, across dispose() calls.
C28_UniqueIds ==
    \A e, f \in 1..Len(emissions) :
        e # f => emissions[e].event.id # emissions[f].event.id

\* --------------------------------------------------- claims on the ceiling
\* C29: on() throws, leaving the registry as it was and creating no wrapper,
\* when the name is not a non-empty string, when the listener is not a
\* function, and when the name already has maxListenersPerEvent listeners;
\* listenerCount of a name never exceeds maxListenersPerEvent.
C29_Ceiling ==
    /\ \A i \in 1..Len(onLog) :
          LET c == onLog[i] IN
          /\ (~ValidEventType(c.name) \/ ~ValidListener(c.listener)) => c.threw
          /\ ( /\ ValidEventType(c.name)
               /\ Len(c.before[c.name]) >= maxListenersPerEvent ) => c.threw
          /\ c.threw => c.after = c.before /\ c.made = 0
    /\ \A n \in Names : ListenerCount(n) <= maxListenersPerEvent

\* --------------------------------------------------- claims on the metrics
\* C30: getMetrics().totalEvents is the number of emit calls that have
\* resolved since construction or the last dispose(), whether the pipeline
\* accepted or rejected the event.
C30_TotalEvents ==
    totalEventsEmitted =
        Cardinality({e \in 1..Len(emissions) :
                        Done(e) /\ emissions[e].doneAfter = Resets})

\* ------------------------------------------------ claims on late observers
\* C31: subscribe() on a stream that has completed or failed notifies the
\* late observer at once of the terminal state (complete, or error), does
\* not keep it in the observer set, and no observer receives a next from a
\* stream that has completed or failed.
C31_LateSubscribe ==
    [][ IsClosed(Streams, Source) =>
          /\ \A j \in Sinks : subs'[j].log = subs[j].log \/ Values(j)' = Values(j)
          /\ Len(subs') = Len(subs) + 1 =>
                LET j == Len(subs') IN
                /\ Len(subs'[j].log) = 1
                /\ subs'[j].log[1].k =
                       (IF obs[Source].hasError THEN "error" ELSE "complete")
                /\ j \notin Range(obs'[Source].observers) ]_vars

\* --------------------------------------------- claims on pipeline snapshots
\* The middlewares of the list as it was when emission e started that have a
\* before hook, in order
BeforeAtStart(e) ==
    SelectSeq(emissions[e].atStart, LAMBDA m : mws[m].before # "none")

\* The middlewares whose before hook emission e has called, in order
BeforeCalled(e) ==
    [k \in 1..Len(emissions[e].hooks) |-> emissions[e].hooks[k].mw]

\* C32: an emission calls the before hooks of the middleware list as it was
\* when the emission started, in order and up to the first that throws;
\* use() and removeMiddleware() during the emission neither add a hook to it
\* nor remove or skip one.
C32_PipelineSnapshot ==
    \A e \in 1..Len(emissions) :
        ~emissions[e].skip =>
            /\ Len(BeforeCalled(e)) <= Len(BeforeAtStart(e))
            /\ BeforeCalled(e) = SubSeq(BeforeAtStart(e), 1, Len(BeforeCalled(e)))
            /\ (emissions[e].pc \in {"preDispatch", "awaitListeners", "done"}
                   /\ emissions[e].thrown = 0)
                  => BeforeCalled(e) = BeforeAtStart(e)

\* ------------------------------------------------- claims on the after hooks
\* The runs of runAfterMiddlewares for emission e
AfterRunsOf(e) ==
    {a \in 1..Len(afterRuns) : afterRuns[a].event.id = emissions[e].event.id}

\* C33: runAfterMiddlewares runs once for an emission that passed the
\* pipeline without skipMiddleware, and only after emit has resolved with
\* its result; when it is over, every middleware registered throughout the
\* emission that has an after hook has had it called exactly once, the hooks
\* were called in registration order, and if one of them threw, the onError
\* hook of every middleware registered throughout was called.
C33_AfterHooks ==
    \A e \in 1..Len(emissions) :
        /\ Cardinality(AfterRunsOf(e)) <= 1
        /\ \A a \in AfterRunsOf(e) :
              LET r == afterRuns[a] IN
              /\ Done(e) /\ ~emissions[e].skip /\ ~Aborted(e)
              /\ emissions[e].result = DispatchResult(emissions[e].ex)
              /\ \A k \in 1..(Len(r.hooks) - 1) : r.hooks[k] < r.hooks[k + 1]
              /\ r.pc = "done" =>
                    /\ \A m \in RegisteredThroughout(e) :
                          mws[m].after # "none" =>
                              \E k \in 1..Len(r.hooks) : r.hooks[k] = m
                    /\ (\E k \in 1..Len(r.hooks) : mws[r.hooks[k]].after = "throw")
                          => \A m \in RegisteredThroughout(e) :
                                mws[m].onError # "none" =>
                                    \E k \in 1..Len(r.errHooks) : r.errHooks[k] = m

\* ----------------------------------------------- claims on the dispatch
\* The listeners whose execute() emission e called, in order
Executed(e) == [i \in 1..Len(emissions[e].ex) |-> emissions[e].ex[i].lid]

\* The listeners whose body emission e started, in order
StartedLids(e) == [i \in 1..Len(StartedOf(e)) |-> StartedOf(e)[i].lid]

\* The listeners of Executed(e) whose body was invoked, in order
RanLids(e) ==
    LET ran == SelectSeq(emissions[e].ex, LAMBDA x : x.ran)
    IN  [i \in 1..Len(ran) |-> ran[i].lid]

\* C34: an emission calls execute() once on each listener of the snapshot
\* taken when its dispatch began, and on no other listener; a listener
\* registered after that is not invoked for the emission; a listener of the
\* snapshot is left out only when the body of a listener before it in the
\* snapshot closed its subscription; removeAllListeners leaves none out.
C34_DispatchSnapshot ==
    \A e \in 1..Len(emissions) :
        Dispatched(e) =>
            /\ Executed(e) = emissions[e].sorted
            /\ StartedLids(e) = RanLids(e)
            /\ \A i, k \in 1..Len(emissions[e].sorted) :
                  i # k => emissions[e].sorted[i] # emissions[e].sorted[k]
            /\ \A i \in 1..Len(emissions[e].ex) :
                  ~emissions[e].ex[i].ran =>
                      \E k \in 1..(i - 1) :
                          /\ emissions[e].ex[k].ran
                          /\ wrappers[emissions[e].ex[k].lid].body = "unsubOthers"

\* The body of the first listener of a snapshot of two registered a
\* listener and that of the second closed the other subscriptions: both
\* were invoked, the listener registered meanwhile was not
C34_Witness ==
    \E e \in 1..Len(emissions) :
        /\ Dispatched(e)
        /\ Len(emissions[e].ex) = 2
        /\ emissions[e].ex[1].ran
        /\ wrappers[emissions[e].ex[1].lid].body = "register"
        /\ emissions[e].ex[2].ran
        /\ wrappers[emissions[e].ex[2].lid].body = "unsubOthers"
        /\ Len(wrappers) = 3
        /\ wrappers[3].bodyCalls = 0
        /\ wrappers[3].closed

\* ------------------------------------------- claims on ended subscriptions
\* The subscription of listener lid has ended: by unsubscribe(), by the
\* call-count ceiling or by dispose() of the emitter, each of which disposes
\* the wrapper
Destroyed(lid) == wrappers[lid].isDisposed /\ ~wrappers[lid].options.once

\* C35: a listener whose subscription has ended by unsubscribe(), by its
\* call-count ceiling or by dispose() of the emitter is in no bucket of the
\* registry, so that listenerCount and getMetrics do not count it, and an
\* emission counts in listenersNotified only listeners whose body it
\* invoked.
C35_Destroyed ==
    /\ \A lid \in 1..Len(wrappers) :
          Destroyed(lid) => \A n \in Names : lid \notin Range(listeners[n])
    /\ \A e \in 1..Len(emissions) :
          Done(e) => emissions[e].result.listenersNotified <= Len(RanLids(e))

\* ------------------------------------------------ claims on stream order
\* The emit call that made the event
EmissionOf(event) ==
    CHOOSE e \in 1..Len(emissions) : emissions[e].event.id = event.id

\* The events stream s handed to its observers, as the emit calls that made
\* them
CallsSeen(s) ==
    [i \in 1..Len(streams[s].received) |-> EmissionOf(streams[s].received[i])]

\* C36: a stream of stream(name) hands the events to its observers in the
\* order in which the emit calls were made, also when the emissions
\* overlap, and an observer subscribed from the start has received their
\* payloads in that order.
C36_StreamOrder ==
    \A s \in 1..Len(streams) :
        /\ \A i, k \in 1..Len(CallsSeen(s)) :
              i < k => CallsSeen(s)[i] < CallsSeen(s)[k]
        /\ \A j \in Sinks :
              Values(j) = [i \in 1..Len(streams[s].received) |->
                              streams[s].received[i].payload]

\* ------------------------------------------------ claims on the once option
\* C37: the body of a listener registered with on(name, listener,
\* {once: true}) is started at most once, whatever the interleaving of the
\* emissions of the name.
C37_OnceOption ==
    \A lid \in 1..Len(wrappers) :
        (wrappers[lid].options.once /\ wrappers[lid].body # "once")
            => wrappers[lid].bodyCalls <= 1

\* ------------------------------------------ claims on closed subscriptions
\* C38: once unsubscribe() on the subscription of a listener has returned,
\* no step starts the body of that listener, and within one dispatch no body
\* is started after the body of a listener before it in the snapshot closed
\* its subscription.
C38_ClosedNeverStarts ==
    /\ [][ \A lid \in 1..Len(wrappers) :
              wrappers[lid].closed =>
                  wrappers'[lid].bodyCalls = wrappers[lid].bodyCalls ]_vars
    /\ [](\A e \in 1..Len(emissions) : \A i, k \in 1..Len(emissions[e].ex) :
              ( /\ i < k
                /\ emissions[e].ex[i].ran
                /\ wrappers[emissions[e].ex[i].lid].body = "unsubOthers" )
              => ~emissions[e].ex[k].ran)

\* An emission that had been suspended in a before hook took a snapshot of
\* two listeners: the body of the first closed the subscription of the
\* second, whose body was not started
C38_Witness ==
    \E e \in 1..Len(emissions) :
        /\ Len(emissions[e].hooks) = 1
        /\ Len(emissions[e].ex) = 2
        /\ emissions[e].ex[1].ran
        /\ wrappers[emissions[e].ex[1].lid].body = "unsubOthers"
        /\ ~emissions[e].ex[2].ran
        /\ wrappers[emissions[e].ex[2].lid].closed
        /\ wrappers[emissions[e].ex[2].lid].bodyCalls = 0
        /\ Done(e)

\* C39: a stream obtained from stream(name) takes only events of emit calls
\* made after stream(name) was called; the event of an emission that had
\* resolved before is never among the events the stream took.
C39_OnlyLater ==
    \A s \in 1..Len(streams) : \A i \in 1..Len(streams[s].received) :
        EmissionOf(streams[s].received[i]) > streams[s].born

\* C40: with on, use, stream(name), emit, removeAllListeners("a") and
\* dispose as the only calls made, a stream of any name has taken the event
\* of every later emission of its name that resolved and whose callback ran
\* before any dispose, and is completed once a dispose() called after it
\* has resolved; before any dispose, the listeners of the other name are all
\* registered still and so is every middleware.
C40_ListenersOnly ==
    /\ \A s \in 1..Len(streams) : \A e \in 1..Len(emissions) :
          ( /\ Resets = 0
            /\ emissions[e].event.type = streams[s].type
            /\ e > streams[s].born
            /\ Done(e)
            /\ ~QueuedFor(emissions[e].processed) )
          => Received(s, e)
    /\ \A d \in 1..Len(disposals) :
          Disposed(d) => \A s \in 1..disposals[d].made : streams[s].isCompleted
    /\ Resets = 0 =>
          /\ \A lid \in 1..Len(wrappers) :
                wrappers[lid].type # "a" => lid \in Range(listeners[wrappers[lid].type])
          /\ \A m \in 1..Len(mws) : m \in Range(middlewares)

\* The size given to buffer()
BufferSize == subs[CHOOSE j \in 1..Len(subs) : subs[j].kind = "buffer"].n

RECURSIVE Concat(_)
Concat(arrays) ==
    IF arrays = << >> THEN << >> ELSE Head(arrays) \o Concat(Tail(arrays))

\* C22: the arrays the observer of buffer(size) has received are the upstream
\* values in order, cut every size values; an array received before the
\* upstream completed has exactly size elements; when the upstream completes
\* the values left over are flushed as one last non-empty array, and the
\* downstream completes after it, once.
C22_Buffer ==
    \A j \in Sinks :
        LET arrays == Values(j)
            full == Len(UpstreamValues) \div BufferSize
            left == Len(UpstreamValues) % BufferSize
        IN  /\ Concat(arrays) =
                  SubSeq(UpstreamValues, 1,
                         IF SourceCompleted THEN Len(UpstreamValues)
                         ELSE full * BufferSize)
            /\ Len(arrays) = full + IF SourceCompleted /\ left # 0 THEN 1 ELSE 0
            /\ \A i \in 1..Len(arrays) : i <= full => Len(arrays[i]) = BufferSize
            /\ \A i \in Terminals(j) : i = Len(subs[j].log)
            /\ Cardinality(Completes(j)) = IF SourceCompleted THEN 1 ELSE 0

\* buffer(2) was given three values and complete: its observer has an array
\* of two, an array of one and complete
C22_Witness ==
    \E j \in Sinks :
        /\ BufferSize = 2
        /\ SourceCompleted
        /\ Len(UpstreamValues) = 3
        /\ Len(Values(j)) = 2
        /\ Len(Values(j)[2]) = 1
        /\ subs[j].log[Len(subs[j].log)].k = "complete"
====
